---- MODULE Spec2Model ----
(***************************************************************************)
(* A model of the network loading engine of dynamic-flows-rs:              *)
(* PiecewiseConstant, PiecewiseLinear, FlowRatesCollection,                *)
(* DepletionQueue, DynamicFlow::extend and NetworkLoader::build_flow.      *)
(*                                                                         *)
(* Numbers.  The engine is generic over `Num`; the only implementation is  *)
(* F64 (float.rs).  The model computes with exact rationals n/d in lowest  *)
(* terms (d > 0), plus the two infinities 1/0 and -1/0, so a division is a *)
(* division and two maps are equal exactly when their rates are.  Rounding *)
(* of f64 is not modelled.  TOL is the rational 1/TolDen.                  *)
(*                                                                         *)
(* Build.  debug_assert! is checked in a debug build and elided in a       *)
(* release build; panic!, assert!, unwrap and indexing abort in both.      *)
(* The build is chosen in Init (debug_assertions).  A call that aborts     *)
(* leaves the variables as the memory was at the abort and sets `fault`.   *)
(*                                                                         *)
(* Style.  A local variable of the source that is read more than once is   *)
(* the parameter of a local operator (LET Go(x) == ... IN Go(e)), so that  *)
(* e occurs once in the definition.                                        *)
(***************************************************************************)
EXTENDS Integers, Sequences, FiniteSets, TLC

VARIABLES
    \* DynamicFlow (dynamic_flow.rs:111-124)
    built_until, inflow, outflow, queues, outflow_changes, depletions,
    \* NetworkLoader (network_loader.rs:11-18) and the path_inflows given to new
    next_edge, path_inflow_rate_changes, path_inflows_given,
    \* the arguments of build_flow and extend, and build_flow's local new_inflow
    num_edges, capacity, inv_capacity, travel_time, new_inflow,
    \* control: position of the caller, abort flag, build profile
    pc, fault, debug_assertions,
    \* the extend calls made so far (arguments, returned set, built_until after
    \* the call), and the flow before the last call
    calls, before

vars == <<built_until, inflow, outflow, queues, outflow_changes, depletions,
          next_edge, path_inflow_rate_changes, path_inflows_given,
          num_edges, capacity, inv_capacity, travel_time, new_inflow,
          pc, fault, debug_assertions, calls, before>>

(***************************************************************************)
(* Exact rational arithmetic standing for `Num` (num.rs, float.rs).        *)
(***************************************************************************)
AbsInt(i) == IF i < 0 THEN -i ELSE i

SignInt(i) == IF i < 0 THEN -1 ELSE IF i > 0 THEN 1 ELSE 0

RECURSIVE GCD(_, _)
GCD(a, b) == IF b = 0 THEN a ELSE GCD(b, a % b)

\* n/d in lowest terms with d >= 0; x/0 is +-infinity (0/0 is NaN).
Q(n, d) ==
    IF d = 0 THEN [n |-> SignInt(n), d |-> 0]
    ELSE LET g == GCD(AbsInt(n), AbsInt(d))
             s == IF d < 0 THEN -1 ELSE 1
         IN  [n |-> (s * n) \div g, d |-> (s * d) \div g]

Int2Num(i) == [n |-> i, d |-> 1]

ZERO == Int2Num(0)

ONE == Int2Num(1)

INFINITY == [n |-> 1, d |-> 0]

TolDen == 1000000000

TOL == [n |-> 1, d |-> TolDen]

IsFinite(a) == a.d # 0

NumNeg(a) == [n |-> -a.n, d |-> a.d]

\* The integer parts and the fractional parts are added apart, so that no
\* intermediate value is larger than the result's numerator.
NumAdd(a, b) ==
    IF a.d = 0 /\ b.d = 0 THEN (IF a.n = b.n THEN a ELSE [n |-> 0, d |-> 0])
    ELSE IF a.d = 0 THEN a
    ELSE IF b.d = 0 THEN b
    ELSE LET Go(i, f) == [n |-> i * f.d + f.n, d |-> f.d]
             Frac(g) == Q((a.n % a.d) * (b.d \div g) + (b.n % b.d) * (a.d \div g),
                          (a.d \div g) * b.d)
         IN  Go((a.n \div a.d) + (b.n \div b.d), Frac(GCD(a.d, b.d)))

NumSub(a, b) == NumAdd(a, NumNeg(b))

\* Common factors are cancelled before the products are formed.
NumMul(a, b) ==
    IF a.d = 0 \/ b.d = 0 \/ a.n = 0 \/ b.n = 0 THEN Q(a.n * b.n, a.d * b.d)
    ELSE LET Go(g1, g2) == Q((a.n \div g1) * (b.n \div g2), (a.d \div g2) * (b.d \div g1))
         IN  Go(GCD(AbsInt(a.n), b.d), GCD(AbsInt(b.n), a.d))

NumDiv(a, b) ==
    IF b.d = 0 THEN (IF a.d = 0 THEN [n |-> 0, d |-> 0] ELSE ZERO)
    ELSE IF b.n = 0 THEN Q(a.n, 0)
    ELSE NumMul(a, [n |-> b.d * SignInt(b.n), d |-> AbsInt(b.n)])

\* n1/d1 <= n2/d2 for d1, d2 > 0, by integer parts and then by the reciprocals
\* of the fractional parts, so that no product is formed.
RECURSIVE FracLe(_, _, _, _)
FracLe(n1, d1, n2, d2) ==
    IF n1 \div d1 # n2 \div d2 THEN n1 \div d1 < n2 \div d2
    ELSE IF n1 % d1 = 0 THEN TRUE
    ELSE IF n2 % d2 = 0 THEN FALSE
    ELSE FracLe(d2, n2 % d2, d1, n1 % d1)

NumLe(a, b) ==
    IF a.d = 0 \/ b.d = 0 THEN a.n * b.d <= b.n * a.d
    ELSE FracLe(a.n, a.d, b.n, b.d)

NumLt(a, b) ==
    IF a.d = 0 \/ b.d = 0 THEN a.n * b.d < b.n * a.d
    ELSE ~FracLe(b.n, b.d, a.n, a.d)

NumMin(a, b) == IF NumLe(a, b) THEN a ELSE b

NumMax(a, b) == IF NumLe(b, a) THEN a ELSE b

NumAbs(a) == [n |-> AbsInt(a.n), d |-> a.d]

\* x <= k * TOL and x < k * TOL, for an integer k > 0 that divides TolDen:
\* n/d <= k/TolDen exactly when n * (TolDen / k) <= d, written as a division
\* so that no product is formed.
LeTol(x, k) ==
    \/ x.n <= 0
    \/ x.n <= x.d \div (TolDen \div k)

LtTol(x, k) ==
    \/ x.n <= 0
    \/ x.n <= (x.d - 1) \div (TolDen \div k)

\* iter::repeat(T::ONE).take(1000).sum()
Mille == 1000

\* Sum of f[k] over a finite set S of keys (Sum::sum_iter, num.rs:26-34).
RECURSIVE SumOver(_, _)
SumOver(f, S) ==
    IF S = {} THEN ZERO
    ELSE LET k == CHOOSE x \in S : TRUE
         IN  NumAdd(f[k], SumOver(f, S \ {k}))

SumMap(m) == SumOver(m, DOMAIN m)

EmptyMap == [k \in {} |-> ZERO]

\* h with key k set to v (HashMap::insert).
MapPut(h, k, v) == [x \in (DOMAIN h) \cup {k} |-> IF x = k THEN v ELSE h[x]]

\* h without key k (HashMap::remove).
MapDel(h, k) == [x \in (DOMAIN h) \ {k} |-> h[x]]

(***************************************************************************)
(* Faults.  "debug_assert" is a failed debug_assert! (debug build only),   *)
(* "panic" a failed assert!, panic!, unwrap or index (either build).       *)
(***************************************************************************)
NoFault == "none"

\* debug_assert!(cond) in a build with (dbg) or without debug assertions.
DebugAssert(dbg, cond) == IF dbg /\ ~cond THEN "debug_assert" ELSE NoFault

\* The first fault of two steps run one after the other.
FirstFault(f1, f2) == IF f1 # NoFault THEN f1 ELSE f2

(***************************************************************************)
(* Point lists.  A point is <<x, y>>.  binary_search_by_key on a strictly  *)
(* ascending list gives Ok(i) when points[i].x = at and otherwise Err(i)   *)
(* with i the number of points left of `at`; indices are 0-based as in the *)
(* source.                                                                 *)
(***************************************************************************)
Last(seq) == seq[Len(seq)]

SetLast(seq, v) == [seq EXCEPT ![Len(seq)] = v]

get_rnk(points, at) ==
    IF \E i \in 1..Len(points) : points[i][1] = at
    THEN [ok |-> TRUE, i |-> (CHOOSE i \in 1..Len(points) : points[i][1] = at) - 1]
    ELSE [ok |-> FALSE,
          i |-> Cardinality({i \in 1..Len(points) : NumLt(points[i][1], at)})]

(***************************************************************************)
(* PiecewiseConstant (piecewise_constant.rs).                              *)
(***************************************************************************)
\* PiecewiseConstant::new((T::ZERO, T::INFINITY), points![(T::ZERO, T::ZERO)])
PCSeed == [domain |-> <<ZERO, INFINITY>>, points |-> << <<ZERO, ZERO>> >>]

\* An eval that gives, at a breakpoint, the value to the left of it.
PCEvalLeftLimit(f, at) ==
    LET Go(rnk) == IF rnk.i = 0 THEN f.points[1][2] ELSE f.points[rnk.i][2]
    IN  Go(get_rnk(f.points, at))

PCEval(f, at) ==
    LET Go(rnk) == IF rnk.ok THEN f.points[rnk.i + 1][2]
                   ELSE IF rnk.i = 0 THEN f.points[1][2]
                   ELSE f.points[rnk.i][2]
    IN  Go(get_rnk(f.points, at))

\* An extend without the two tolerance rules: it appends every time.
PCExtendAlwaysAppends(f, from_time, value, dbg) ==
    IF DebugAssert(dbg, LeTol(NumSub(Last(f.points)[1], from_time), 1)) # NoFault
    THEN [f |-> f, fault |-> "debug_assert"]
    ELSE [f |-> [f EXCEPT !.points = Append(@, <<from_time, value>>)], fault |-> NoFault]

\* back is last_point.0 - from_time and jump is last_point.1 - value.
PCExtend(f, from_time, value, dbg) ==
    LET Go(last_point, back, jump) ==
            IF DebugAssert(dbg, LeTol(back, 1)) # NoFault
            THEN [f |-> f, fault |-> "debug_assert"]
            ELSE IF LeTol(NumAbs(jump), 1)
            THEN [f |-> f, fault |-> NoFault]
            ELSE IF LeTol(NumAbs(back), 1)
            THEN [f |-> [f EXCEPT !.points = SetLast(@, <<last_point[1], value>>)],
                  fault |-> NoFault]
            ELSE [f |-> [f EXCEPT !.points = Append(@, <<from_time, value>>)],
                  fault |-> NoFault]
    IN  Go(Last(f.points), NumSub(Last(f.points)[1], from_time),
           NumSub(Last(f.points)[2], value))

(***************************************************************************)
(* PiecewiseLinear (piecewise_linear.rs).                                  *)
(***************************************************************************)
\* PiecewiseLinear::new((-INFINITY, INFINITY), ZERO, ZERO, points!((ZERO, ZERO)))
PLSeed ==
    [domain |-> <<NumNeg(INFINITY), INFINITY>>, first_slope |-> ZERO,
     last_slope |-> ZERO, points |-> << <<ZERO, ZERO>> >>]

eval_with_rank(f, rnk, at) ==
    IF rnk.ok THEN f.points[rnk.i + 1][2]
    ELSE IF rnk.i = Len(f.points)
    THEN NumAdd(f.points[rnk.i][2],
                NumMul(NumSub(at, f.points[rnk.i][1]), f.last_slope))
    ELSE IF rnk.i = 0
    THEN NumAdd(f.points[1][2],
                NumMul(NumSub(at, f.points[1][1]), f.first_slope))
    ELSE NumAdd(f.points[rnk.i][2],
                NumDiv(NumMul(NumSub(at, f.points[rnk.i][1]),
                              NumSub(f.points[rnk.i + 1][2], f.points[rnk.i][2])),
                       NumSub(f.points[rnk.i + 1][1], f.points[rnk.i][1])))

PLEval(f, at) == eval_with_rank(f, get_rnk(f.points, at), at)

gradient(f, i) ==
    IF i = 0 THEN f.first_slope
    ELSE IF i = Len(f.points) THEN f.last_slope
    ELSE NumDiv(NumSub(f.points[i + 1][2], f.points[i][2]),
                NumSub(f.points[i + 1][1], f.points[i][1]))

\* PiecewiseLinear::extend(from_time, slope): the function is absent from the
\* sources at hand; modelled from the specification (sections 4.2 and 7).
\* Extending backward beyond TOL is a fatal precondition violation; a start
\* within TOL of the last point only replaces the last slope; otherwise the
\* point (from_time, eval(from_time)) is appended.  back is last.x - from_time.
PLExtend(f, from_time, slope) ==
    LET Go(back) ==
            IF ~LeTol(back, 1)
            THEN [f |-> f, fault |-> "panic"]
            ELSE IF LeTol(NumAbs(back), 1)
            THEN [f |-> [f EXCEPT !.last_slope = slope], fault |-> NoFault]
            ELSE [f |-> [f EXCEPT !.points = Append(@, <<from_time, PLEval(f, from_time)>>),
                                  !.last_slope = slope],
                  fault |-> NoFault]
    IN  Go(NumSub(Last(f.points)[1], from_time))

(***************************************************************************)
(* FlowRatesCollection (dynamic_flow.rs:19-97).  `queue` is the deque of   *)
(* snapshots [time, values].  An Option is the empty set or a singleton.   *)
(***************************************************************************)
FRCNew == [function_by_comm |-> [k \in {} |-> PCSeed],
           accumulative |-> PLSeed,
           queue |-> <<>>]

\* The value of a Some.
The(opt) == CHOOSE v \in opt : TRUE

\* The snapshots left after `while queue.get(1).is_some_and(|n| n.time <= time)
\* { queue.pop_front() }`.
RECURSIVE EvictSuperseded(_, _)
EvictSuperseded(queue, time) ==
    IF Len(queue) >= 2 /\ NumLe(queue[2].time, time)
    THEN EvictSuperseded(Tail(queue), time)
    ELSE queue

\* A get_values_at_time that does not test the front snapshot's time.
get_values_unchecked(c, time) ==
    IF c.queue = <<>> THEN [c |-> c, values |-> {}, fault |-> NoFault]
    ELSE [c |-> [c EXCEPT !.queue = EvictSuperseded(c.queue, time)],
          values |-> {EvictSuperseded(c.queue, time)[1].values},
          fault |-> NoFault]

get_values_at_time(c, time) ==
    LET Go(q) == [c |-> [c EXCEPT !.queue = q], values |-> {q[1].values},
                  fault |-> NoFault]
    IN  IF c.queue = <<>> THEN [c |-> c, values |-> {}, fault |-> NoFault]
        ELSE IF NumLt(time, c.queue[1].time)
        THEN [c |-> c, values |-> {}, fault |-> "panic"]
        ELSE Go(EvictSuperseded(c.queue, time))

\* The per-commodity loop of FlowRatesCollection::extend.  A commodity without
\* a function gets the seed function first.  The loop runs over a HashMap; the
\* commodities' functions are disjoint, so the order only decides which fault is
\* met first when several extensions fail.
FRCExtendFunctions(fbc, from_time, values_map, dbg) ==
    LET Go(ext) ==
            [fbc |-> [i \in (DOMAIN fbc) \cup (DOMAIN values_map) |->
                         IF i \in DOMAIN values_map THEN ext[i].f ELSE fbc[i]],
             fault |-> IF \A i \in DOMAIN ext : ext[i].fault = NoFault THEN NoFault
                       ELSE ext[CHOOSE i \in DOMAIN ext : ext[i].fault # NoFault].fault]
    IN  Go([i \in DOMAIN values_map |->
               PCExtend(IF i \in DOMAIN fbc THEN fbc[i] ELSE PCSeed,
                        from_time, values_map[i], dbg)])

\* An extend that puts the new snapshot at the front of the deque.
FRCExtendPushFront(c, from_time, values_map, values_sum, dbg) ==
    LET Go(fns, acc) ==
            [c |-> [function_by_comm |-> fns.fbc,
                    accumulative |-> acc.f,
                    queue |-> <<[time |-> from_time, values |-> values_map]>> \o c.queue],
             fault |-> FirstFault(fns.fault, acc.fault)]
    IN  Go(FRCExtendFunctions(c.function_by_comm, from_time, values_map, dbg),
           PLExtend(c.accumulative, from_time, values_sum))

FRCExtend(c, from_time, values_map, values_sum, dbg) ==
    LET Go(f0, fns, acc) ==
            IF f0 # NoFault THEN [c |-> c, fault |-> f0]
            ELSE IF fns.fault # NoFault
            THEN [c |-> [c EXCEPT !.function_by_comm = fns.fbc], fault |-> fns.fault]
            ELSE [c |-> [function_by_comm |-> fns.fbc,
                         accumulative |-> acc.f,
                         queue |-> Append(c.queue,
                                          [time |-> from_time, values |-> values_map])],
                  fault |-> acc.fault]
    IN  Go(IF c.queue = <<>> THEN NoFault
           ELSE DebugAssert(dbg, LeTol(NumSub(Last(c.queue).time, from_time), 1)),
           FRCExtendFunctions(c.function_by_comm, from_time, values_map, dbg),
           PLExtend(c.accumulative, from_time, values_sum))

(***************************************************************************)
(* DepletionQueue (depletion_queue.rs).  A PriorityQueue<usize, Reverse<T>>*)
(* holds one priority per edge, so each heap is a map edge -> time; push   *)
(* inserts or replaces.                                                    *)
(***************************************************************************)
DQNew == [depletions |-> [e \in {} |-> ZERO],
          change_times_after_a_depletion |-> [e \in {} |-> ZERO],
          new_outflow |-> [e \in {} |-> [new_outflow_map |-> EmptyMap, values_sum |-> ZERO]]]

\* A set that pushes the depletion and the given event but never clears the
\* change entry of an earlier set.
DQSetKeepsChange(q, edge, depletion_time, outflow_change_event, dbg) ==
    [q |-> IF outflow_change_event # {}
           THEN [depletions |-> MapPut(q.depletions, edge, depletion_time),
                 new_outflow |-> MapPut(q.new_outflow, edge, The(outflow_change_event).value),
                 change_times_after_a_depletion |->
                     MapPut(q.change_times_after_a_depletion, edge,
                            The(outflow_change_event).time)]
           ELSE [q EXCEPT !.depletions = MapPut(@, edge, depletion_time)],
     fault |-> NoFault]

\* outflow_change_event is an Option<ChangeEvent>: {} or {[time, value]}.
DQSet(q, edge, depletion_time, outflow_change_event, dbg) ==
    IF DebugAssert(dbg, NumLt(NumNeg(INFINITY), depletion_time)) # NoFault
    THEN [q |-> q, fault |-> "debug_assert"]
    ELSE IF outflow_change_event # {}
    THEN [q |-> [depletions |-> MapPut(q.depletions, edge, depletion_time),
                 new_outflow |-> MapPut(q.new_outflow, edge, The(outflow_change_event).value),
                 change_times_after_a_depletion |->
                     MapPut(q.change_times_after_a_depletion, edge,
                            The(outflow_change_event).time)],
          fault |-> NoFault]
    ELSE IF edge \in DOMAIN q.change_times_after_a_depletion
    THEN [q |-> [depletions |-> MapPut(q.depletions, edge, depletion_time),
                 change_times_after_a_depletion |->
                     MapDel(q.change_times_after_a_depletion, edge),
                 new_outflow |-> MapDel(q.new_outflow, edge)],
          fault |-> NoFault]
    ELSE [q |-> [q EXCEPT !.depletions = MapPut(@, edge, depletion_time)],
          fault |-> NoFault]

\* A remove that clears the two heaps and leaves the stored value.
DQRemoveHeapsOnly(q, edge) ==
    [depletions |-> MapDel(q.depletions, edge),
     change_times_after_a_depletion |-> MapDel(q.change_times_after_a_depletion, edge),
     new_outflow |-> q.new_outflow]

DQRemove(q, edge) ==
    [depletions |-> MapDel(q.depletions, edge),
     change_times_after_a_depletion |-> MapDel(q.change_times_after_a_depletion, edge),
     new_outflow |-> MapDel(q.new_outflow, edge)]

\* The least priority of a heap (peek), as an Option.
MinTime(heap) ==
    IF DOMAIN heap = {} THEN {}
    ELSE {heap[CHOOSE e \in DOMAIN heap : \A o \in DOMAIN heap : NumLe(heap[e], heap[o])]}

min_depletion_time(q) == MinTime(q.depletions)

min_change_time(q) == MinTime(q.change_times_after_a_depletion)

\* A pop that takes the entry off the depletion heap only and reports no event.
DQPopDepletionOnly(q, edge) ==
    [q |-> [q EXCEPT !.depletions = MapDel(@, edge)],
     edge |-> edge,
     depletion_time |-> q.depletions[edge],
     change_event |-> {},
     fault |-> NoFault]

\* pop_by_depletion, where `edge` is the entry that depletions.pop() yields: one
\* of least depletion time (the caller picks among equal times).
DQPopByDepletion(q, edge) ==
    [q |-> [depletions |-> MapDel(q.depletions, edge),
            change_times_after_a_depletion |->
                MapDel(q.change_times_after_a_depletion, edge),
            new_outflow |->
                IF edge \in DOMAIN q.change_times_after_a_depletion
                THEN MapDel(q.new_outflow, edge) ELSE q.new_outflow],
     edge |-> edge,
     depletion_time |-> q.depletions[edge],
     change_event |->
         IF edge \in DOMAIN q.change_times_after_a_depletion /\ edge \in DOMAIN q.new_outflow
         THEN {[time |-> q.change_times_after_a_depletion[edge],
                value |-> q.new_outflow[edge]]}
         ELSE {},
     fault |-> IF edge \in DOMAIN q.change_times_after_a_depletion
                  /\ edge \notin DOMAIN q.new_outflow
               THEN "panic" ELSE NoFault]

(***************************************************************************)
(* DynamicFlow (dynamic_flow.rs:111-405).  A flow is the record            *)
(* [built_until, inflow, outflow, queues, outflow_changes, depletions,     *)
(* fault]; inflow, outflow and queues are indexed by the edges 0..n-1.     *)
(* outflow_changes is a PriorityQueue keyed by (edge, change_time) with    *)
(* the change time as priority: a set of pairs <<edge, change_time>>.      *)
(* P is the record [capacity, inv_capacity, travel_time, dbg] of the       *)
(* arguments that stay the same over a run.                                *)
(***************************************************************************)
Edges(n) == 0..(n - 1)

DynamicFlowNew(n) ==
    [built_until |-> ZERO,
     inflow |-> [e \in Edges(n) |-> FRCNew],
     outflow |-> [e \in Edges(n) |-> FRCNew],
     queues |-> [e \in Edges(n) |-> PLSeed],
     outflow_changes |-> {},
     depletions |-> DQNew,
     fault |-> NoFault]

\* for (_, v) in outflow_map.iter_mut() { *v *= factor; }
ScaleMap(m, factor) == [i \in DOMAIN m |-> NumMul(m[i], factor)]

\* A CommitCase that writes the extended queue function into the queue of
\* every edge.
CommitCaseEveryQueue(s, edge, arrival, o, qf, chk, dq) ==
    [s EXCEPT !.outflow[edge] = o.c,
              !.outflow_changes = @ \cup {<<edge, arrival>>},
              !.queues = [x \in DOMAIN s.queues |-> qf.f],
              !.depletions = dq.q,
              !.fault = FirstFault(FirstFault(o.fault, qf.fault), FirstFault(chk, dq.fault))]

\* The writes that the three cases share, in the order of the source:
\* outflow[edge].extend (result o), outflow_changes.push, queues[edge].extend
\* (result qf), the debug_assert on the depletion time (result chk) and the
\* update of the depletion queue (result dq).  A fault ends the sequence.
CommitCase(s, edge, arrival, o, qf, chk, dq) ==
    IF o.fault # NoFault
    THEN [s EXCEPT !.outflow[edge] = o.c, !.fault = o.fault]
    ELSE IF qf.fault # NoFault \/ chk # NoFault
    THEN [s EXCEPT !.outflow[edge] = o.c,
                   !.outflow_changes = @ \cup {<<edge, arrival>>},
                   !.queues[edge] = qf.f,
                   !.fault = FirstFault(qf.fault, chk)]
    ELSE [s EXCEPT !.outflow[edge] = o.c,
                   !.outflow_changes = @ \cup {<<edge, arrival>>},
                   !.queues[edge] = qf.f,
                   !.depletions = dq.q,
                   !.fault = dq.fault]

\* An arrival time that leaves out the time spent in the queue.
ArrivalWithoutQueue(until, cur_queue, inv_capacity_e, travel_time_e) ==
    NumAdd(until, travel_time_e)

\* let arrival = self.built_until + cur_queue * inv_capacity + travel_time;
Arrival(until, cur_queue, inv_capacity_e, travel_time_e) ==
    NumAdd(NumAdd(until, NumMul(cur_queue, inv_capacity_e)), travel_time_e)

\* AccOut without the cap: the outflow takes the whole inflow rate.
AccOutUncapped(capacity_e, acc_in) == acc_in

\* let acc_out = min(capacity, acc_in);
AccOut(capacity_e, acc_in) == NumMin(capacity_e, acc_in)

\* DrainSlope of a queue that is never drained.
DrainSlopeZero(cur_queue, capacity_e) == ZERO

\* The queue_slope of _extend_case_i (dynamic_flow.rs:271-277).
DrainSlope(cur_queue, capacity_e) ==
    IF cur_queue = ZERO THEN ZERO ELSE NumNeg(capacity_e)

\* _extend_case_i: the new inflow is zero.
ExtendCaseI(s, edge, cur_queue, capacity_e, inv_capacity_e, travel_time_e, dbg) ==
    LET Go(arrival, depl_time, qf) ==
            CommitCase(s, edge, arrival,
                FRCExtend(s.outflow[edge], arrival, EmptyMap, ZERO, dbg),
                qf,
                IF cur_queue = ZERO THEN NoFault
                ELSE DebugAssert(dbg, LeTol(PLEval(qf.f, depl_time), Mille)),
                IF cur_queue = ZERO
                THEN [q |-> DQRemove(s.depletions, edge), fault |-> NoFault]
                ELSE DQSet(s.depletions, edge, depl_time, {}, dbg))
    IN  Go(Arrival(s.built_until, cur_queue, inv_capacity_e, travel_time_e),
           NumAdd(s.built_until, NumMul(cur_queue, inv_capacity_e)),
           PLExtend(s.queues[edge], s.built_until, DrainSlope(cur_queue, capacity_e)))

\* _extend_case_ii: positive inflow, and no queue or inflow >= capacity - TOL.
ExtendCaseII(s, edge, new_inflow_e, cur_queue, acc_in, capacity_e, inv_capacity_e, travel_time_e, dbg) ==
    LET Go(arrival, acc_out) ==
            CommitCase(s, edge, arrival,
                FRCExtend(s.outflow[edge], arrival,
                          ScaleMap(new_inflow_e, NumDiv(acc_out, acc_in)), acc_out, dbg),
                PLExtend(s.queues[edge], s.built_until,
                         NumMax(NumSub(acc_in, capacity_e), ZERO)),
                NoFault,
                [q |-> DQRemove(s.depletions, edge), fault |-> NoFault])
    IN  Go(Arrival(s.built_until, cur_queue, inv_capacity_e, travel_time_e),
           AccOut(capacity_e, acc_in))

\* _extend_case_iii: a queue, and positive inflow below capacity - TOL.
ExtendCaseIII(s, edge, new_inflow_e, cur_queue, acc_in, capacity_e, inv_capacity_e, travel_time_e, dbg) ==
    LET Go(arrival, outflow_map, depl_time, qf) ==
            CommitCase(s, edge, arrival,
                FRCExtend(s.outflow[edge], arrival, outflow_map, capacity_e, dbg),
                qf,
                DebugAssert(dbg, LtTol(PLEval(qf.f, depl_time), Mille)),
                DQSet(s.depletions, edge, depl_time,
                      {[time |-> NumAdd(depl_time, travel_time_e),
                        value |-> [new_outflow_map |-> outflow_map,
                                   values_sum |-> acc_in]]},
                      dbg))
    IN  Go(Arrival(s.built_until, cur_queue, inv_capacity_e, travel_time_e),
           ScaleMap(new_inflow_e, NumDiv(capacity_e, acc_in)),
           NumAdd(s.built_until, NumDiv(cur_queue, NumSub(acc_in, capacity_e))),
           PLExtend(s.queues[edge], s.built_until, NumSub(acc_in, capacity_e)))

\* acc_in >= capacity_e - T::TOL
Saturated(acc_in, capacity_e) == LeTol(NumSub(capacity_e, acc_in), 1)

\* A dispatch that looks at the rates alone: an edge without a queue whose
\* inflow is below the capacity is sent to Case III.
CaseOfRatesAlone(acc_in, cur_queue, capacity_e) ==
    IF acc_in = ZERO THEN "I"
    ELSE IF Saturated(acc_in, capacity_e) THEN "II"
    ELSE "III"

\* The case of the dispatch of extend (dynamic_flow.rs:194-216).
CaseOf(acc_in, cur_queue, capacity_e) ==
    IF acc_in = ZERO THEN "I"
    ELSE IF cur_queue = ZERO \/ Saturated(acc_in, capacity_e) THEN "II"
    ELSE "III"

\* Unchanged when the test never succeeds: no update is skipped.
UnchangedNever(values, new_inflow_e) == FALSE

\* The test of dynamic_flow.rs:179-183: the snapshot at built_until (values, an
\* Option; an empty map when None) equals the new inflow map.
Unchanged(values, new_inflow_e) ==
    (IF values = {} THEN EmptyMap ELSE The(values)) = new_inflow_e

\* One pass of the loop of extend over (edge, new_inflow_e).  g is the result
\* of inflow[edge].get_values_at_time(built_until), i that of inflow[edge].extend.
ExtendEdge(s, edge, new_inflow_e, P) ==
    LET Case(s1, acc_in, cur_queue) ==
            IF s1.fault # NoFault THEN s1
            ELSE IF CaseOf(acc_in, cur_queue, P.capacity[edge]) = "I"
            THEN ExtendCaseI(s1, edge, cur_queue, P.capacity[edge],
                             P.inv_capacity[edge], P.travel_time[edge], P.dbg)
            ELSE IF CaseOf(acc_in, cur_queue, P.capacity[edge]) = "II"
            THEN ExtendCaseII(s1, edge, new_inflow_e, cur_queue, acc_in, P.capacity[edge],
                              P.inv_capacity[edge], P.travel_time[edge], P.dbg)
            ELSE ExtendCaseIII(s1, edge, new_inflow_e, cur_queue, acc_in, P.capacity[edge],
                               P.inv_capacity[edge], P.travel_time[edge], P.dbg)
        Update(i, acc_in) ==
            Case([s EXCEPT !.inflow[edge] = i.c, !.fault = i.fault], acc_in,
                 NumMax(PLEval(s.queues[edge], s.built_until), ZERO))
        Go(g) ==
            IF g.fault # NoFault THEN [s EXCEPT !.fault = g.fault]
            ELSE IF Unchanged(g.values, new_inflow_e)
            THEN [s EXCEPT !.inflow[edge] = g.c]
            ELSE Update(FRCExtend(g.c, s.built_until, new_inflow_e, SumMap(new_inflow_e),
                                  P.dbg),
                        SumMap(new_inflow_e))
    IN  Go(get_values_at_time(s.inflow[edge], s.built_until))

\* A loop over new_inflow that ends after its first entry.
ExtendEdgesFirstOnly(s, order, inflow_by_edge, P) ==
    IF order = <<>> \/ s.fault # NoFault THEN s
    ELSE ExtendEdge(s, Head(order), inflow_by_edge[Head(order)], P)

\* The loop of extend over new_inflow, a HashMap: `order` lists its keys in the
\* order of the iteration.
RECURSIVE ExtendEdges(_, _, _, _)
ExtendEdges(s, order, inflow_by_edge, P) ==
    IF order = <<>> \/ s.fault # NoFault THEN s
    ELSE ExtendEdges(ExtendEdge(s, Head(order), inflow_by_edge[Head(order)], P),
                     Tail(order), inflow_by_edge, P)

\* NewBuiltUntil without the pending outflow changes.
NewBuiltUntilNoArrival(s, max_extension_time) ==
    NumMin(IF min_change_time(s.depletions) = {} THEN INFINITY
           ELSE The(min_change_time(s.depletions)),
           IF max_extension_time = {} THEN INFINITY ELSE The(max_extension_time))

\* NewBuiltUntil without the cap of the caller's max_extension_time.
NewBuiltUntilUncapped(s, max_extension_time) ==
    NumMin(IF min_change_time(s.depletions) = {} THEN INFINITY
           ELSE The(min_change_time(s.depletions)),
           IF s.outflow_changes = {} THEN INFINITY
           ELSE (CHOOSE c \in s.outflow_changes :
                    \A o \in s.outflow_changes : NumLe(c[2], o[2]))[2])

\* The block that computes the new built_until (dynamic_flow.rs:219-231);
\* max_extension_time is an Option.
NewBuiltUntil(s, max_extension_time) ==
    LET Min3(a, b, c) == NumMin(NumMin(NumMin(INFINITY, a), b), c)
    IN  Min3(IF min_change_time(s.depletions) = {} THEN INFINITY
             ELSE The(min_change_time(s.depletions)),
             IF s.outflow_changes = {} THEN INFINITY
             ELSE (CHOOSE c \in s.outflow_changes :
                      \A o \in s.outflow_changes : NumLe(c[2], o[2]))[2],
             IF max_extension_time = {} THEN INFINITY ELSE The(max_extension_time))

\* Position of edge e in the sequence tie.
Rank(tie, e) == CHOOSE k \in 1..Len(tie) : tie[k] = e

\* The entry that depletions.pop() yields: least depletion time; among equal
\* times the crate's heap decides, here the order of `tie`.
NextDepletion(q, tie) ==
    CHOOSE e \in DOMAIN q.depletions :
        /\ \A o \in DOMAIN q.depletions : NumLe(q.depletions[e], q.depletions[o])
        /\ \A o \in DOMAIN q.depletions :
               q.depletions[o] = q.depletions[e] => Rank(tie, e) <= Rank(tie, o)

\* _process_depletions that processes nothing.
ProcessDepletionsSkipped(s, tie, dbg) == s

\* _process_depletions.  pop is the result of pop_by_depletion, qf that of
\* queue_e.extend(depl_time, ZERO), o that of outflow[edge].extend.
RECURSIVE ProcessDepletions(_, _, _)
ProcessDepletions(s, tie, dbg) ==
    LET Change(s3, edge, ev, o) ==
            IF o.fault # NoFault
            THEN [s3 EXCEPT !.outflow[edge] = o.c, !.fault = o.fault]
            ELSE ProcessDepletions(
                     [s3 EXCEPT !.outflow[edge] = o.c,
                                !.outflow_changes = @ \cup {<<edge, ev.time>>}],
                     tie, dbg)
        Zeroed(s3, pop) ==
            IF pop.change_event = {} THEN ProcessDepletions(s3, tie, dbg)
            ELSE Change(s3, pop.edge, The(pop.change_event),
                        FRCExtend(s3.outflow[pop.edge], The(pop.change_event).time,
                                  The(pop.change_event).value.new_outflow_map,
                                  The(pop.change_event).value.values_sum, dbg))
        Popped(pop, qf) ==
            IF pop.fault # NoFault
            THEN [s EXCEPT !.depletions = pop.q, !.fault = pop.fault]
            ELSE IF qf.fault # NoFault
            THEN [s EXCEPT !.depletions = pop.q, !.queues[pop.edge] = qf.f,
                           !.fault = qf.fault]
            ELSE IF DebugAssert(dbg, LtTol(NumAbs(Last(qf.f.points)[2]), Mille)) # NoFault
            THEN [s EXCEPT !.depletions = pop.q, !.queues[pop.edge] = qf.f,
                           !.fault = "debug_assert"]
            ELSE Zeroed([s EXCEPT !.depletions = pop.q,
                                  !.queues[pop.edge] =
                                      [qf.f EXCEPT !.points =
                                          SetLast(@, <<Last(qf.f.points)[1], ZERO>>)]],
                        pop)
        Pop(edge) ==
            Popped(DQPopByDepletion(s.depletions, edge),
                   PLExtend(s.queues[edge], s.depletions.depletions[edge], ZERO))
    IN  IF s.fault # NoFault \/ NumLe(INFINITY, s.built_until) THEN s
        ELSE IF min_depletion_time(s.depletions) = {}
                \/ ~NumLe(The(min_depletion_time(s.depletions)), s.built_until)
        THEN s
        ELSE Pop(NextDepletion(s.depletions, tie))

\* DueChanges that leaves the changes at built_until itself pending.
DueChangesStrict(s) == {c \in s.outflow_changes : NumLt(c[2], s.built_until)}

\* The outflow changes that are due at built_until, popped at the end of extend.
DueChanges(s) == {c \in s.outflow_changes : NumLe(c[2], s.built_until)}

\* DynamicFlow::extend.  The result is the flow after the call and the set it
\* returns.
Extend(s, inflow_by_edge, order, tie, max_extension_time, P) ==
    LET Done(s3) ==
            IF s3.fault # NoFault \/ NumLe(INFINITY, s3.built_until)
            THEN [s |-> s3, changed_edges |-> {}]
            ELSE [s |-> [s3 EXCEPT !.outflow_changes = @ \ DueChanges(s3)],
                  changed_edges |-> {c[1] : c \in DueChanges(s3)}]
        Go(s1) ==
            IF s1.fault # NoFault THEN [s |-> s1, changed_edges |-> {}]
            ELSE Done(ProcessDepletions(
                          [s1 EXCEPT !.built_until = NewBuiltUntil(s1, max_extension_time)],
                          tie, P.dbg))
    IN  Go(ExtendEdges(s, order, inflow_by_edge, P))

(***************************************************************************)
(* NetworkLoader (network_loader.rs).  path_inflows is a sequence of       *)
(* records [path, inflow]: path a sequence of edges, inflow the points     *)
(* <<time, value>> of a PiecewiseConstant.  Paths count from 0 as in       *)
(* enumerate().  next_edge maps <<path, Option<edge>>> to an edge;         *)
(* path_inflow_rate_changes is a PriorityQueue<(path, value), time>, a map *)
(* <<path, value>> -> time in which a second push of an equal item         *)
(* replaces the time of the first.                                         *)
(***************************************************************************)
\* The greatest index among idx: a later insert or push of an equal key
\* replaces the earlier one.
LastIndex(idx) ==
    CHOOSE k \in idx : \A j \in idx : j <= k

NetworkLoaderNew(path_inflows) ==
    [next_edge |->
        [key \in {<<i - 1, {}>> : i \in {j \in 1..Len(path_inflows) :
                                             path_inflows[j].path # <<>>}}
                 \cup UNION {{<<i - 1, {path_inflows[i].path[k]}>> :
                                 k \in 1..(Len(path_inflows[i].path) - 1)} :
                             i \in 1..Len(path_inflows)} |->
            IF key[2] = {} THEN path_inflows[key[1] + 1].path[1]
            ELSE path_inflows[key[1] + 1].path[
                     LastIndex({k \in 1..(Len(path_inflows[key[1] + 1].path) - 1) :
                                   path_inflows[key[1] + 1].path[k] = The(key[2])})
                     + 1]],
     path_inflow_rate_changes |->
        [item \in UNION {{<<i - 1, path_inflows[i].inflow[k][2]>> :
                             k \in 1..Len(path_inflows[i].inflow)} :
                         i \in 1..Len(path_inflows)} |->
            path_inflows[item[1] + 1].inflow[
                LastIndex({k \in 1..Len(path_inflows[item[1] + 1].inflow) :
                              path_inflows[item[1] + 1].inflow[k][2] = item[2]})][1]]]

\* The first loop of an iteration of build_flow: every change with time <=
\* built_until is popped and added to new_inflow[first edge of the path][path].
\* Indexing next_edge with a path that has no edge panics.
PopPathChanges(changes, next, inflow_by_edge, until) ==
    LET Go(due) ==
            [changes |-> [item \in (DOMAIN changes) \ due |-> changes[item]],
             new_inflow |->
                 [e \in (DOMAIN inflow_by_edge)
                        \cup {next[<<item[1], {}>>] :
                                 item \in {d \in due : <<d[1], {}>> \in DOMAIN next}} |->
                     [i \in (IF e \in DOMAIN inflow_by_edge
                             THEN DOMAIN inflow_by_edge[e] ELSE {})
                            \cup {item[1] : item \in {d \in due :
                                      /\ <<d[1], {}>> \in DOMAIN next
                                      /\ next[<<d[1], {}>>] = e}} |->
                         NumAdd(IF e \in DOMAIN inflow_by_edge /\ i \in DOMAIN inflow_by_edge[e]
                                THEN inflow_by_edge[e][i] ELSE ZERO,
                                SumOver([d \in due |-> d[2]],
                                        {d \in due : /\ d[1] = i
                                                     /\ <<d[1], {}>> \in DOMAIN next
                                                     /\ next[<<d[1], {}>>] = e}))]],
             fault |-> IF \A d \in due : <<d[1], {}>> \in DOMAIN next
                       THEN NoFault ELSE "panic"]
    IN  Go({item \in DOMAIN changes : NumLe(changes[item], until)})

\* Propagate that hands no outflow on to a next edge.
PropagateNowhere(s, changed_edges, next) ==
    [s |-> s, new_inflow |-> [e \in {} |-> EmptyMap], fault |-> NoFault]

\* The loop over changed_edges at the end of an iteration of build_flow.  g[e]
\* is the result of flow.outflow_at_built_until(e).
Propagate(s, changed_edges, next) ==
    LET Feeds(g, e, i, n) ==
            /\ g[e].values # {}
            /\ i \in DOMAIN The(g[e].values)
            /\ <<i, {e}>> \in DOMAIN next
            /\ next[<<i, {e}>>] = n
        Go(g) ==
            [s |-> [s EXCEPT !.outflow = [e \in DOMAIN s.outflow |->
                                             IF e \in changed_edges THEN g[e].c
                                             ELSE s.outflow[e]]],
             new_inflow |->
                 [n \in {next[key] : key \in {k \in DOMAIN next :
                            /\ k[2] # {}
                            /\ \E e \in changed_edges : Feeds(g, e, k[1], next[k])
                                                        /\ k[2] = {e}}} |->
                     [i \in {k[1] : k \in {k \in DOMAIN next :
                                /\ k[2] # {}
                                /\ next[k] = n
                                /\ \E e \in changed_edges : Feeds(g, e, k[1], n)
                                                            /\ k[2] = {e}}} |->
                         SumOver([e \in changed_edges |->
                                     IF Feeds(g, e, i, n) THEN The(g[e].values)[i] ELSE ZERO],
                                 changed_edges)]],
             fault |-> IF \A e \in changed_edges : g[e].fault = NoFault
                       THEN NoFault ELSE "panic"]
    IN  Go([e \in changed_edges |-> get_values_at_time(s.outflow[e], s.built_until)])

\* The orders in which a HashMap or HashSet with the keys S can be iterated.
Orders(S) ==
    {o \in [1..Cardinality(S) -> S] : \A a, b \in 1..Cardinality(S) : a # b => o[a] # o[b]}

(***************************************************************************)
(* The state as a flow record, and back.                                   *)
(***************************************************************************)
Flow ==
    [built_until |-> built_until, inflow |-> inflow, outflow |-> outflow,
     queues |-> queues, outflow_changes |-> outflow_changes,
     depletions |-> depletions, fault |-> fault]

Params ==
    [capacity |-> capacity, inv_capacity |-> inv_capacity,
     travel_time |-> travel_time, dbg |-> debug_assertions]

SetFlow(s) ==
    /\ built_until' = s.built_until
    /\ inflow' = s.inflow
    /\ outflow' = s.outflow
    /\ queues' = s.queues
    /\ outflow_changes' = s.outflow_changes
    /\ depletions' = s.depletions

InitFlow(n) ==
    /\ built_until = DynamicFlowNew(n).built_until
    /\ inflow = DynamicFlowNew(n).inflow
    /\ outflow = DynamicFlowNew(n).outflow
    /\ queues = DynamicFlowNew(n).queues
    /\ outflow_changes = DynamicFlowNew(n).outflow_changes
    /\ depletions = DynamicFlowNew(n).depletions

(***************************************************************************)
(* Inputs.  Rates, capacities, travel times and times are small integers.  *)
(***************************************************************************)
MaxRate == 3

MaxCapacity == 2

MaxTravelTime == 1

BreakTime == 3

MaxCalls == 2

\* Inflow rate r from time 0 on.
ConstInflow(r) == << <<ZERO, Int2Num(r)>> >>

\* Inflow rate r on [0, BreakTime) and r2 from BreakTime on.
StepInflow(r, r2) == << <<ZERO, Int2Num(r)>>, <<Int2Num(BreakTime), Int2Num(r2)>> >>

Inflows ==
    {ConstInflow(r) : r \in 1..MaxRate}
        \cup {StepInflow(r, r2) : r \in 1..MaxRate, r2 \in 0..MaxRate}

\* The lists of paths: one edge; a path of two edges; the two paths of
\* network_loader.rs:126-141; two paths that meet on edge 1; two paths on edge 0.
PathLists ==
    { << <<0>> >>, << <<0, 1>> >>, << <<0, 1, 2>>, <<2, 0, 1>> >>,
      << <<0, 1>>, <<1>> >>, << <<0>>, <<0>> >> }

NumEdgesOf(paths) ==
    1 + (CHOOSE m \in 0..2 :
            /\ \E i \in 1..Len(paths) : \E k \in 1..Len(paths[i]) : paths[i][k] = m
            /\ \A i \in 1..Len(paths) : \A k \in 1..Len(paths[i]) : paths[i][k] <= m)

\* The breakpoint of the inflows of it_should_do_a_correct_network_loading.
S3Break == 3

\* The path inflows of it_should_do_a_correct_network_loading
\* (network_loader.rs:126-141).
S3PathInflows ==
    << [path |-> <<0, 1, 2>>,
        inflow |-> << <<ZERO, Int2Num(1)>>, <<Int2Num(S3Break), ZERO>> >>],
       [path |-> <<2, 0, 1>>,
        inflow |-> << <<ZERO, Int2Num(2)>>, <<Int2Num(S3Break), ZERO>> >>] >>

\* Every path with the same inflow, or path i with rate i + 1 until BreakTime
\* (network_loader.rs:126-141).
PathInflows ==
    {[i \in 1..Len(paths) |-> [path |-> paths[i], inflow |-> f]] :
        paths \in PathLists, f \in Inflows}
    \cup {[i \in 1..Len(paths) |-> [path |-> paths[i], inflow |-> StepInflow(i, 0)]] :
             paths \in PathLists}
    \cup {S3PathInflows}

\* Per-edge values: the same value on every edge, or e + 1 on edge e
\* (network_loader.rs:142-147).
Profiles(n, values) ==
    {[e \in Edges(n) |-> Int2Num(v)] : v \in values}
        \cup {[e \in Edges(n) |-> Int2Num(e + 1)]}

PathsOf(path_inflows) == [i \in 1..Len(path_inflows) |-> path_inflows[i].path]

(***************************************************************************)
(* build_flow as a state machine: one step per iteration of its loop.      *)
(***************************************************************************)
Init ==
    \E dbg \in BOOLEAN :
        /\ path_inflows_given \in PathInflows
        /\ num_edges = NumEdgesOf(PathsOf(path_inflows_given))
        /\ capacity \in Profiles(num_edges, 1..MaxCapacity)
        /\ inv_capacity = [e \in Edges(num_edges) |-> NumDiv(ONE, capacity[e])]
        /\ travel_time \in Profiles(num_edges, 0..MaxTravelTime)
        /\ next_edge = NetworkLoaderNew(path_inflows_given).next_edge
        /\ path_inflow_rate_changes = NetworkLoaderNew(path_inflows_given).path_inflow_rate_changes
        /\ InitFlow(num_edges)
        /\ new_inflow = [e \in {} |-> EmptyMap]
        /\ pc = "loop"
        /\ fault = NoFault
        /\ debug_assertions = dbg
        /\ calls = <<>>
        /\ before = DynamicFlowNew(num_edges)

\* The entries of the depletion queue that a call can pop: the order among
\* equal depletion times is drawn over these.
TieEdges(s, inflow_by_edge) == (DOMAIN s.depletions.depletions) \cup (DOMAIN inflow_by_edge)

\* The state after a call of extend with result r, followed by the propagation p
\* of build_flow (for a caller that does not propagate, p.s = r.s).
AfterCall(r, p, inflow_by_edge, max_extension_time, next_pc) ==
    /\ SetFlow(p.s)
    /\ fault' = FirstFault(r.s.fault, p.fault)
    /\ new_inflow' = p.new_inflow
    /\ pc' = IF FirstFault(r.s.fault, p.fault) # NoFault THEN "aborted" ELSE next_pc
    /\ calls' = Append(calls, [new_inflow |-> inflow_by_edge,
                                max_extension_time |-> max_extension_time,
                                changed_edges |-> r.changed_edges,
                                built_until |-> p.s.built_until])
    /\ before' = Flow

\* One iteration of `while flow.built_until() < T::INFINITY`.
BuildFlowIteration ==
    /\ pc = "loop"
    /\ NumLt(built_until, INFINITY)
    /\ \E popped \in {PopPathChanges(path_inflow_rate_changes, next_edge, new_inflow,
                                     built_until)} :
         IF popped.fault # NoFault
         THEN /\ fault' = popped.fault
              /\ pc' = "aborted"
              /\ path_inflow_rate_changes' = popped.changes
              /\ UNCHANGED <<built_until, inflow, outflow, queues, outflow_changes,
                             depletions, next_edge, path_inflows_given, num_edges, capacity,
                             inv_capacity, travel_time, new_inflow, debug_assertions,
                             calls, before>>
         ELSE /\ path_inflow_rate_changes' = popped.changes
              /\ \E order \in Orders(DOMAIN popped.new_inflow),
                    tie \in Orders(TieEdges(Flow, popped.new_inflow)) :
                   \E r \in {Extend(Flow, popped.new_inflow, order, tie,
                                    MinTime(popped.changes), Params)} :
                     \E p \in {IF r.s.fault # NoFault
                               THEN [s |-> r.s, new_inflow |-> [e \in {} |-> EmptyMap],
                                     fault |-> NoFault]
                               ELSE Propagate(r.s, r.changed_edges, next_edge)} :
                        AfterCall(r, p, popped.new_inflow, MinTime(popped.changes), "loop")
              /\ UNCHANGED <<next_edge, path_inflows_given, num_edges, capacity, inv_capacity,
                             travel_time, debug_assertions>>

\* The loop ends and build_flow returns the flow.
BuildFlowReturn ==
    /\ pc = "loop"
    /\ ~NumLt(built_until, INFINITY)
    /\ pc' = "returned"
    /\ UNCHANGED <<built_until, inflow, outflow, queues, outflow_changes, depletions,
                   next_edge, path_inflow_rate_changes, path_inflows_given, num_edges,
                   capacity, inv_capacity, travel_time, new_inflow, fault,
                   debug_assertions, calls, before>>

Next == BuildFlowIteration \/ BuildFlowReturn

Spec == Init /\ [][Next]_vars

(***************************************************************************)
(* DynamicFlow::extend called directly, as in test_dynamic_flow            *)
(* (dynamic_flow.rs:415-434): a fresh flow on one edge and up to MaxCalls  *)
(* calls.  The caller passes any inflow map for edge 0, or none, and       *)
(* either no max_extension_time or built_until + 1.                        *)
(***************************************************************************)
InflowMaps ==
    {EmptyMap} \cup {[i \in {0} |-> Int2Num(r)] : r \in 0..MaxRate}
               \cup {[i \in {0, 1} |-> ONE]}

ExtendInputs == {[e \in {} |-> EmptyMap]} \cup {[e \in {0} |-> m] : m \in InflowMaps}

InitExtend ==
    \E dbg \in BOOLEAN :
        /\ path_inflows_given = <<>>
        /\ num_edges = 1
        /\ capacity \in Profiles(num_edges, 1..MaxCapacity)
        /\ inv_capacity = [e \in Edges(num_edges) |-> NumDiv(ONE, capacity[e])]
        /\ travel_time \in Profiles(num_edges, 0..MaxTravelTime)
        /\ next_edge = NetworkLoaderNew(path_inflows_given).next_edge
        /\ path_inflow_rate_changes = NetworkLoaderNew(path_inflows_given).path_inflow_rate_changes
        /\ InitFlow(num_edges)
        /\ new_inflow = [e \in {} |-> EmptyMap]
        /\ pc = "caller"
        /\ fault = NoFault
        /\ debug_assertions = dbg
        /\ calls = <<>>
        /\ before = DynamicFlowNew(num_edges)

ExtendCall ==
    /\ pc = "caller"
    /\ Len(calls) < MaxCalls
    /\ NumLt(built_until, INFINITY)
    /\ \E inflow_by_edge \in ExtendInputs,
          max_extension_time \in {{}, {NumAdd(built_until, ONE)}} :
         \E order \in Orders(DOMAIN inflow_by_edge),
            tie \in Orders(TieEdges(Flow, inflow_by_edge)) :
           \E r \in {Extend(Flow, inflow_by_edge, order, tie, max_extension_time, Params)} :
              AfterCall(r, [s |-> r.s, new_inflow |-> new_inflow, fault |-> NoFault],
                        inflow_by_edge, max_extension_time, "caller")
    /\ UNCHANGED <<next_edge, path_inflow_rate_changes, path_inflows_given, num_edges,
                   capacity, inv_capacity, travel_time, debug_assertions>>

NextExtend == ExtendCall

SpecExtend == InitExtend /\ [][NextExtend]_vars

(***************************************************************************)
(* Properties.                                                             *)
(***************************************************************************)
\* x >= -k * TOL.
GeNegTol(x, k) == LeTol(NumNeg(x), k)

\* The integral of the piecewise constant f over [0, t], t finite and >= 0.
Integral(f, t) ==
    SumOver([k \in 1..Len(f.points) |->
                NumMul(f.points[k][2],
                       NumSub(IF k = Len(f.points) THEN NumMax(t, f.points[k][1])
                              ELSE NumMin(NumMax(t, f.points[k][1]), f.points[k + 1][1]),
                              f.points[k][1]))],
            1..Len(f.points))

\* The integral over [0, t] of commodity i in the collection c; a commodity
\* without a function has rate 0.
CommodityIntegral(c, i, t) ==
    IF i \in DOMAIN c.function_by_comm THEN Integral(c.function_by_comm[i], t) ELSE ZERO

\* The breakpoints of the collection c.
BreakTimes(c) ==
    {c.accumulative.points[k][1] : k \in 1..Len(c.accumulative.points)}
        \cup UNION {{c.function_by_comm[i].points[k][1] :
                        k \in 1..Len(c.function_by_comm[i].points)} :
                    i \in DOMAIN c.function_by_comm}

\* build_flow returned the flow with built_until = +INFINITY.
Returned == pc = "returned" /\ built_until = INFINITY

\* C1: build_flow terminates: on finite paths and schedules with positive
\* capacities and non-negative travel times, build_flow never stops inside its
\* loop (every iteration is followed by another one or by the return), and it
\* returns the flow with built_until = +INFINITY.  Every iteration adds a call
\* to `calls`, so no run repeats a state.
C1_BuildFlowTerminates == pc # "aborted" /\ (pc = "returned" => built_until = INFINITY)

\* C2: monotone watermark: no extend call issued by build_flow leaves
\* built_until smaller than it was before the call.
C2_MonotoneWatermark == [][NumLe(built_until, built_until')]_vars

\* The times at which conservation on edge e is checked: the breakpoints of
\* inflow[e], those of outflow[e] moved back by the travel time, and built_until,
\* as far as they are finite, not negative and not after built_until.  Between
\* two of them every cumulative function is linear.
ConservationTimes(e) ==
    {t \in BreakTimes(inflow[e])
           \cup {NumSub(x, travel_time[e]) : x \in BreakTimes(outflow[e])}
           \cup {built_until} :
        /\ IsFinite(t)
        /\ NumLe(ZERO, t)
        /\ NumLe(t, built_until)}

\* Cumulative inflow of commodity i into e up to t minus its cumulative outflow
\* up to t + travel_time[e].
Stored(e, i, t) ==
    NumSub(CommodityIntegral(inflow[e], i, t),
           CommodityIntegral(outflow[e], i, NumAdd(t, travel_time[e])))

\* C3: conservation: for every edge e, commodity i and time t <= built_until the
\* cumulative inflow of i up to t minus its cumulative outflow up to
\* t + travel_time[e] is not negative (within 1000 TOL), and the sum of these
\* differences over the commodities is the queue length queue[e](t) (within
\* 1000 TOL).
C3_Conservation ==
    fault = NoFault =>
        \A e \in Edges(num_edges) : \A t \in ConservationTimes(e) :
            /\ \A i \in DOMAIN inflow[e].function_by_comm
                        \cup DOMAIN outflow[e].function_by_comm :
                   GeNegTol(Stored(e, i, t), Mille)
            /\ LeTol(NumAbs(NumSub(
                   SumOver([i \in DOMAIN inflow[e].function_by_comm
                                  \cup DOMAIN outflow[e].function_by_comm |->
                               Stored(e, i, t)],
                           DOMAIN inflow[e].function_by_comm
                               \cup DOMAIN outflow[e].function_by_comm),
                   PLEval(queues[e], t))), Mille)

\* The piecewise linear f is >= -1000 TOL on [0, until]: at its breakpoints up to
\* `until`, at `until`, and, when `until` is infinite, by a last slope >= 0.
NonNegativeUntil(f, until) ==
    /\ \A k \in 1..Len(f.points) :
           NumLe(f.points[k][1], until) => GeNegTol(f.points[k][2], Mille)
    /\ IF IsFinite(until) THEN GeNegTol(PLEval(f, until), Mille)
       ELSE NumLe(ZERO, f.last_slope)

\* C4: non-negative queues: in every state reached by extend calls that
\* returned, for every edge e and every time t <= built_until,
\* queue[e](t) >= -1000 TOL.
C4_NonNegativeQueues ==
    fault = NoFault =>
        \A e \in Edges(num_edges) : NonNegativeUntil(queues[e], built_until)

\* A queue that was built up and then depleted by a processed depletion: the
\* case in which the queue function comes down to zero.
C4_Witness ==
    /\ fault = NoFault
    /\ \E e \in Edges(num_edges) :
          /\ \E k \in 1..Len(queues[e].points) : NumLt(ZERO, queues[e].points[k][2])
          /\ Last(queues[e].points)[2] = ZERO
          /\ NumLt(Last(queues[e].points)[1], built_until)

\* C5: capacity respect: every rate sum passed to an extension of outflow[e] is
\* at most capacity[e] + TOL: the slope of the cumulative outflow on every piece
\* (the sum passed when the piece began), and the sum of every retained snapshot.
C5_CapacityRespect ==
    \A e \in Edges(num_edges) :
        /\ \A k \in 1..Len(outflow[e].accumulative.points) :
               LeTol(NumSub(gradient(outflow[e].accumulative, k), capacity[e]), 1)
        /\ \A k \in 1..Len(outflow[e].queue) :
               LeTol(NumSub(SumMap(outflow[e].queue[k].values), capacity[e]), 1)

\* An edge that took more inflow than its capacity and whose outflow runs at
\* exactly the capacity.
C5_Witness ==
    \E e \in Edges(num_edges) :
        /\ \E k \in 1..Len(inflow[e].accumulative.points) :
               NumLt(capacity[e], gradient(inflow[e].accumulative, k))
        /\ \E k \in 1..Len(outflow[e].accumulative.points) :
               gradient(outflow[e].accumulative, k) = capacity[e]

\* The snapshots of the collection c that the collection c0 does not hold.
NewSnapshots(c, c0) ==
    {c.queue[k] : k \in 1..Len(c.queue)} \ {c0.queue[k] : k \in 1..Len(c0.queue)}

\* The per-edge update of edge e in the last call, applied to the flow before
\* that call; r is its result.  Every outflow snapshot it adds and the change
\* event it leaves pending are at or after `from` + travel_time[e].
PlacedCausally(r, e, from) ==
    /\ \A snap \in NewSnapshots(r.outflow[e], before.outflow[e]) :
           NumLe(NumAdd(from, travel_time[e]), snap.time)
    /\ (/\ e \in DOMAIN r.depletions.change_times_after_a_depletion
        /\ r.depletions # before.depletions)
           => NumLe(NumAdd(from, travel_time[e]),
                    r.depletions.change_times_after_a_depletion[e])

\* C6: travel-time causality: every outflow extension of an edge e, written at
\* once or scheduled as a depletion change event, is at a time >= the time of
\* the inflow change that caused it (the built_until of the call) plus
\* travel_time[e]; and the outflow of every commodity on e is zero before
\* travel_time[e].
C6_TravelTimeCausality ==
    /\ \A e \in Edges(num_edges) : \A i \in DOMAIN outflow[e].function_by_comm :
           \A k \in 1..Len(outflow[e].function_by_comm[i].points) :
               NumLt(outflow[e].function_by_comm[i].points[k][1], travel_time[e])
                   => outflow[e].function_by_comm[i].points[k][2] = ZERO
    /\ calls # <<>> =>
           \A e \in DOMAIN Last(calls).new_inflow :
               PlacedCausally(ExtendEdge(before, e, Last(calls).new_inflow[e], Params),
                              e, before.built_until)

\* Scenario S2 generalized: build_flow on the single path <<0>> whose inflow is
\* r > capacity[0] until a time s and 0 afterwards.
IsS2 ==
    /\ Len(path_inflows_given) = 1
    /\ path_inflows_given[1].path = <<0>>
    /\ Len(path_inflows_given[1].inflow) = 2
    /\ path_inflows_given[1].inflow[2][2] = ZERO
    /\ NumLt(capacity[0], path_inflows_given[1].inflow[1][2])

\* The queue and the cumulative outflow that S2 expects for rate r until s,
\* capacity mu and travel time tau; qs is the queue at s and d the depletion time.
S2Shape(r, s, mu, tau) ==
    LET Shape(qs, d) ==
            /\ queues[0].points = << <<ZERO, ZERO>>, <<s, qs>>, <<d, ZERO>> >>
            /\ queues[0].last_slope = ZERO
            /\ NumSub(r, mu) = NumDiv(qs, s)
            /\ NumNeg(mu) = gradient(queues[0], 2)
            /\ \A k \in 1..Len(outflow[0].accumulative.points) :
                   outflow[0].accumulative.points[k][1] \in {ZERO, tau, NumAdd(d, tau)}
            /\ PLEval(outflow[0].accumulative, tau) = ZERO
            /\ PLEval(outflow[0].accumulative, NumAdd(d, tau)) = NumMul(mu, d)
            /\ outflow[0].accumulative.last_slope = ZERO
    IN  Shape(NumMul(NumSub(r, mu), s),
              NumAdd(s, NumDiv(NumMul(NumSub(r, mu), s), mu)))

\* C7: scenario S2 generalized: build_flow does not abort, and when it has
\* returned the queue has slope r - mu on [0, s], slope -mu from s to
\* d = s + queue(s)/mu, is 0 at d and stays 0; the total outflow rate is 0 before
\* tau, mu on [tau, d + tau] and 0 after d + tau.
C7_BuildUpAndDepletion ==
    IsS2 =>
        /\ pc # "aborted"
        /\ pc = "returned" =>
               /\ built_until = INFINITY
               /\ S2Shape(path_inflows_given[1].inflow[1][2],
                          path_inflows_given[1].inflow[2][1],
                          capacity[0], travel_time[0])

\* S2 has run to the end on an edge with a positive travel time.
C7_Witness == IsS2 /\ Returned /\ NumLt(ZERO, travel_time[0]) /\ Len(queues[0].points) = 3

\* The call c gives edge 0 one commodity at a rate r <= capacity[0] and no
\* max_extension_time.
S1First(c) ==
    /\ DOMAIN c.new_inflow = {0}
    /\ Cardinality(DOMAIN c.new_inflow[0]) = 1
    /\ NumLe(SumMap(c.new_inflow[0]), capacity[0])
    /\ c.max_extension_time = {}

\* The call c repeats the inflow of the call c1, as the second call of
\* test_dynamic_flow does, or names no edge; it has no max_extension_time.
S1Second(c, c1) ==
    /\ c.new_inflow = c1.new_inflow \/ DOMAIN c.new_inflow = {}
    /\ c.max_extension_time = {}

\* The rate function f is 0 before the time tau and r from tau on.
StepsAt(f, tau, r) ==
    /\ \A k \in 1..Len(f.points) :
           f.points[k][2] = IF NumLt(f.points[k][1], tau) THEN ZERO ELSE r
    /\ PCEval(f, tau) = r

\* The outflow of edge 0 for the commodity of the map m is 0 before
\* travel_time[0] and the rate of m afterwards (a commodity without a function
\* has rate 0), and the queue of edge 0 is identically 0.
S1Shape(m) ==
    /\ \A i \in DOMAIN m :
           StepsAt(IF i \in DOMAIN outflow[0].function_by_comm
                   THEN outflow[0].function_by_comm[i] ELSE PCSeed,
                   travel_time[0], m[i])
    /\ \A k \in 1..Len(queues[0].points) : queues[0].points[k][2] = ZERO
    /\ queues[0].last_slope = ZERO

\* C8: scenario S1 generalized: on a fresh single-edge flow, a first extend with
\* one commodity at a rate r <= mu and no max_extension_time sets built_until to
\* tau; a second extend sets it to +INFINITY; no call aborts, the queue stays 0
\* and the commodity's outflow is 0 before tau and r from tau on.
C8_SingleEdgeFreeFlow ==
    (calls # <<>> /\ S1First(calls[1])) =>
        /\ Len(calls) = 1 =>
               /\ fault = NoFault
               /\ built_until = travel_time[0]
               /\ S1Shape(calls[1].new_inflow[0])
        /\ (Len(calls) = 2 /\ S1Second(calls[2], calls[1])) =>
               /\ fault = NoFault
               /\ built_until = INFINITY
               /\ S1Shape(calls[1].new_inflow[0])

\* The two calls of S1 have been made with a positive rate and a positive
\* travel time, the second with the same inflow map.
C8_Witness ==
    /\ Len(calls) = 2
    /\ S1First(calls[1])
    /\ calls[2] = [calls[1] EXCEPT !.built_until = INFINITY, !.changed_edges = {}]
    /\ NumLt(ZERO, SumMap(calls[1].new_inflow[0]))
    /\ NumLt(ZERO, travel_time[0])
    /\ built_until = INFINITY

\* Scenario S3: the paths, inflows, capacities and travel times of
\* it_should_do_a_correct_network_loading (network_loader.rs:124-149).
IsS3 ==
    /\ path_inflows_given = S3PathInflows
    /\ capacity = [e \in Edges(3) |-> Int2Num(e + 1)]
    /\ travel_time = [e \in Edges(3) |-> Int2Num(e + 1)]

\* On [0, until) the inflow of edge 0 is rate_a for path a (commodity 0) and
\* rate_b for path b (commodity 1), with the sum as the total rate; a path
\* without a function has rate 0.
S3InflowOfEdge0(rate_a, rate_b, until) ==
    LET RateIs(f, rate) ==
            /\ PCEval(f, ZERO) = rate
            /\ \A k \in 1..Len(f.points) : NumLt(f.points[k][1], until) => f.points[k][2] = rate
    IN  /\ RateIs(IF 0 \in DOMAIN inflow[0].function_by_comm
                  THEN inflow[0].function_by_comm[0] ELSE PCSeed, rate_a)
        /\ RateIs(IF 1 \in DOMAIN inflow[0].function_by_comm
                  THEN inflow[0].function_by_comm[1] ELSE PCSeed, rate_b)
        /\ PLEval(inflow[0].accumulative, until) = NumMul(NumAdd(rate_a, rate_b), until)
        /\ \A k \in 1..Len(inflow[0].accumulative.points) :
               \/ inflow[0].accumulative.points[k][1] = ZERO
               \/ NumLe(until, inflow[0].accumulative.points[k][1])

\* C9 as stated: in S3, build_flow returns with built_until = +INFINITY and the
\* inflow of edge 0 on [0, 3) is {path_a: 1, path_b: 2} with sum 3, which makes
\* the first update of edge 0 a Case II update.
C9_S3AsStated ==
    (IsS3 /\ pc # "loop") =>
        /\ Returned
        /\ S3InflowOfEdge0(Int2Num(1), Int2Num(2), Int2Num(S3Break))
        /\ CaseOf(Int2Num(3), ZERO, capacity[0]) = "II"

\* C9, amended: in S3, build_flow returns with built_until = +INFINITY; the
\* inflow of edge 0 on [0, 3) is {path_a: 1} with sum 1, because path b enters
\* edge 0 only at time 3, after travel_time[2] = 3 on edge 2, with the rate 2 it
\* left edge 2 with; the first update of edge 0, with inflow 1 = capacity[0] and
\* no queue, is a Case II update.
C9_S3Amended ==
    (IsS3 /\ pc # "loop") =>
        /\ Returned
        /\ S3InflowOfEdge0(Int2Num(1), ZERO, Int2Num(S3Break))
        /\ calls[1].new_inflow[0] = [i \in {0} |-> Int2Num(1)]
        /\ CaseOf(SumMap(calls[1].new_inflow[0]), ZERO, capacity[0]) = "II"
        /\ 1 \in DOMAIN inflow[0].function_by_comm
        /\ PCEval(inflow[0].function_by_comm[1], Int2Num(S3Break)) = Int2Num(2)

\* build_flow has returned in S3.
C9_Witness == IsS3 /\ Returned /\ Len(calls) > 1

\* The inflow map of edge e in the flow s at s.built_until, as extend compares
\* it: the values of the latest snapshot at or before built_until, or the empty
\* map when there is no snapshot.
CurrentInflow(s, e) ==
    IF s.inflow[e].queue = <<>> THEN EmptyMap
    ELSE s.inflow[e].queue[
             LastIndex({k \in 1..Len(s.inflow[e].queue) :
                           NumLe(s.inflow[e].queue[k].time, s.built_until)})].values

\* The per-edge update with result r left edge e's inflow, outflow and queue
\* functions and the pending events as they were before the call.
LeftAlone(r, e) ==
    /\ r.fault = NoFault
    /\ r.inflow[e].function_by_comm = before.inflow[e].function_by_comm
    /\ r.inflow[e].accumulative = before.inflow[e].accumulative
    /\ r.outflow[e] = before.outflow[e]
    /\ r.queues[e] = before.queues[e]
    /\ r.outflow_changes = before.outflow_changes
    /\ r.depletions = before.depletions

\* C10: skipping unchanged inflow: when the last extend call gave edge e the
\* map that is e's inflow snapshot at built_until (or the empty map when e has no
\* snapshot), the per-edge update of e left e's inflow, outflow and queue
\* functions and the pending events unchanged, and the call added no outflow
\* change.
C10_SkipUnchangedInflow ==
    calls # <<>> =>
        \A e \in DOMAIN Last(calls).new_inflow :
            Last(calls).new_inflow[e] = CurrentInflow(before, e) =>
                /\ LeftAlone(ExtendEdge(before, e, Last(calls).new_inflow[e], Params), e)
                /\ DOMAIN Last(calls).new_inflow = {e}
                       => outflow_changes \subseteq before.outflow_changes

\* The last call re-supplied the inflow that edge 0 already had: a positive
\* rate, while an outflow change of the first call may still be pending.
C10_Witness ==
    /\ Len(calls) >= 2
    /\ fault = NoFault
    /\ 0 \in DOMAIN Last(calls).new_inflow
    /\ before.inflow[0].queue # <<>>
    /\ Last(calls).new_inflow[0] = CurrentInflow(before, 0)
    /\ NumLt(ZERO, SumMap(Last(calls).new_inflow[0]))

(***************************************************************************)
(* The components on their own.  Each of the specifications below drives   *)
(* one component through its public methods, as the unit tests of its      *)
(* file do.  The component lives in the variable of DynamicFlow that holds *)
(* it in the engine; `before` is the component before the last call and    *)
(* `calls` holds the last call (method, arguments, returned value).  A     *)
(* call that aborts sets `fault`, and no further call is made.  The        *)
(* variables of the engine that the component does not touch stay as       *)
(* UnitRest leaves them.                                                   *)
(***************************************************************************)
UnitRest ==
    /\ path_inflows_given = <<>>
    /\ num_edges = 0
    /\ capacity = <<>>
    /\ inv_capacity = <<>>
    /\ travel_time = <<>>
    /\ next_edge = <<>>
    /\ path_inflow_rate_changes = <<>>
    /\ new_inflow = <<>>
    /\ fault = NoFault
    /\ calls = <<>>

UnitFrame ==
    UNCHANGED <<path_inflows_given, num_edges, capacity, inv_capacity, travel_time,
                next_edge, path_inflow_rate_changes, new_inflow, debug_assertions>>

(***************************************************************************)
(* DepletionQueue on its own (depletion_queue.rs:28-87, as driven by       *)
(* test_depletion_queue, lines 95-103): any sequence of set, remove and    *)
(* pop_by_depletion on a queue that starts as DepletionQueue::new().       *)
(***************************************************************************)
MaxDQTime == 1

DQEdges == {0, 1}

DQTimes == {Int2Num(k) : k \in 0..MaxDQTime}

DQValues == {[new_outflow_map |-> [i \in {0} |-> Int2Num(r)], values_sum |-> Int2Num(r)] :
                 r \in {1, 2}}

\* Option<ChangeEvent>.
DQEvents == {{}} \cup {{[time |-> tm, value |-> v]} : tm \in DQTimes, v \in DQValues}

\* The entries that depletions.pop() may yield: those of least depletion time.
MinEdges(heap) == {e \in DOMAIN heap : \A o \in DOMAIN heap : NumLe(heap[e], heap[o])}

InitDQ ==
    /\ UnitRest
    /\ debug_assertions \in BOOLEAN
    /\ pc = "depletion_queue"
    /\ depletions = DQNew
    /\ before = DQNew
    /\ built_until = ZERO
    /\ inflow = <<>>
    /\ outflow = <<>>
    /\ queues = <<>>
    /\ outflow_changes = {}

DQUnchanged == UNCHANGED <<built_until, inflow, outflow, queues, outflow_changes, pc>>

DQSetCall ==
    /\ fault = NoFault
    /\ \E edge \in DQEdges, depletion_time \in DQTimes, ev \in DQEvents :
         \E r \in {DQSet(depletions, edge, depletion_time, ev, debug_assertions)} :
            /\ depletions' = r.q
            /\ fault' = r.fault
            /\ calls' = <<[op |-> "set", edge |-> edge, depletion_time |-> depletion_time,
                           event |-> ev, result |-> {}]>>
    /\ before' = depletions
    /\ DQUnchanged
    /\ UnitFrame

DQRemoveCall ==
    /\ fault = NoFault
    /\ \E edge \in DQEdges :
            /\ depletions' = DQRemove(depletions, edge)
            /\ calls' = <<[op |-> "remove", edge |-> edge, depletion_time |-> ZERO,
                           event |-> {}, result |-> {}]>>
    /\ before' = depletions
    /\ UNCHANGED fault
    /\ DQUnchanged
    /\ UnitFrame

\* pop_by_depletion: `depletions.pop()?` returns None on the empty heap.
DQPopCall ==
    /\ fault = NoFault
    /\ IF DOMAIN depletions.depletions = {}
       THEN /\ calls' = <<[op |-> "pop", edge |-> 0, depletion_time |-> ZERO,
                           event |-> {}, result |-> {}]>>
            /\ UNCHANGED <<depletions, fault>>
       ELSE \E edge \in MinEdges(depletions.depletions) :
              \E r \in {DQPopByDepletion(depletions, edge)} :
                 /\ depletions' = r.q
                 /\ fault' = r.fault
                 /\ calls' = <<[op |-> "pop", edge |-> edge, depletion_time |-> ZERO,
                                event |-> {},
                                result |-> {[edge |-> r.edge,
                                             depletion_time |-> r.depletion_time,
                                             change_event |-> r.change_event]}]>>
    /\ before' = depletions
    /\ DQUnchanged
    /\ UnitFrame

NextDQ == DQSetCall \/ DQRemoveCall \/ DQPopCall

SpecDQ == InitDQ /\ [][NextDQ]_vars

\* The last call on the component.
LastCall == calls[Len(calls)]

\* C11: DepletionQueue coherence: after any sequence of set, remove and
\* pop_by_depletion, the edges of the change-time heap are the edges of the
\* value map, and each of them has an entry in the depletion heap.
C11_DepletionQueueCoherence ==
    /\ DOMAIN depletions.change_times_after_a_depletion = DOMAIN depletions.new_outflow
    /\ DOMAIN depletions.change_times_after_a_depletion \subseteq DOMAIN depletions.depletions

\* A remove or pop has just acted while another edge keeps its change event.
C11_Witness ==
    /\ calls # <<>>
    /\ LastCall.op \in {"remove", "pop"}
    /\ DOMAIN before.change_times_after_a_depletion = DQEdges
    /\ DOMAIN depletions.change_times_after_a_depletion # {}
    /\ DOMAIN depletions.change_times_after_a_depletion # DQEdges

\* C12: pop_by_depletion returns an edge of least depletion time with that
\* time and the edge's pending change event (its time and value) if it has
\* one, and removes the edge from the depletion heap, the change-time heap and
\* the value map; on an empty queue it returns None and changes nothing.
C12_PopByDepletion ==
    (calls # <<>> /\ LastCall.op = "pop") =>
        IF DOMAIN before.depletions = {}
        THEN LastCall.result = {} /\ depletions = before
        ELSE /\ LastCall.result # {}
             /\ \A r \in LastCall.result :
                  /\ r.edge \in DOMAIN before.depletions
                  /\ r.depletion_time = before.depletions[r.edge]
                  /\ \A o \in DOMAIN before.depletions :
                         NumLe(r.depletion_time, before.depletions[o])
                  /\ r.change_event =
                         IF r.edge \in DOMAIN before.change_times_after_a_depletion
                         THEN {[time |-> before.change_times_after_a_depletion[r.edge],
                                value |-> before.new_outflow[r.edge]]}
                         ELSE {}
                  /\ r.edge \notin DOMAIN depletions.depletions
                  /\ r.edge \notin DOMAIN depletions.change_times_after_a_depletion
                  /\ r.edge \notin DOMAIN depletions.new_outflow

\* A pop has returned an edge together with its pending change event.
C12_Witness ==
    /\ calls # <<>>
    /\ LastCall.op = "pop"
    /\ \E r \in LastCall.result : r.change_event # {}

\* The entries of edge o in the three containers of q, as Options.
DQEntries(q, o) ==
    <<IF o \in DOMAIN q.depletions THEN {q.depletions[o]} ELSE {},
      IF o \in DOMAIN q.change_times_after_a_depletion
      THEN {q.change_times_after_a_depletion[o]} ELSE {},
      IF o \in DOMAIN q.new_outflow THEN {q.new_outflow[o]} ELSE {}>>

\* C13: set(edge, t, ev) is insert-or-replace: afterwards the edge's depletion
\* entry has time t; with an event the edge's change entry has the event's time
\* and value; without one the edge has no change entry and no stored value,
\* whatever an earlier set gave it; the entries of other edges are unchanged.
C13_SetInsertOrReplace ==
    (calls # <<>> /\ LastCall.op = "set" /\ fault = NoFault) =>
        /\ DQEntries(depletions, LastCall.edge) =
               <<{LastCall.depletion_time},
                 {ev.time : ev \in LastCall.event},
                 {ev.value : ev \in LastCall.event}>>
        /\ \A o \in DQEdges \ {LastCall.edge} :
               DQEntries(depletions, o) = DQEntries(before, o)

\* A set without an event on an edge that had a change event from an earlier
\* set, while the other edge has entries too.
C13_Witness ==
    /\ calls # <<>>
    /\ LastCall.op = "set"
    /\ LastCall.event = {}
    /\ LastCall.edge \in DOMAIN before.change_times_after_a_depletion
    /\ DOMAIN before.change_times_after_a_depletion = DQEdges

(***************************************************************************)
(* FlowRatesCollection on its own (dynamic_flow.rs:31-97): any sequence of *)
(* extend and get_values_at_time on a collection that starts as            *)
(* FlowRatesCollection::new().  extend accepts a from_time up to TOL       *)
(* before the last snapshot (line 73), so the times offered include one    *)
(* that lies TOL before the time 1.  built_until is the caller's           *)
(* watermark: the time of the first snapshot, raised by every later query. *)
(***************************************************************************)
MaxFRCTime == 1

MaxSnapshots == 3

FRCTimes == {Int2Num(k) : k \in 0..MaxFRCTime} \cup {NumSub(ONE, TOL)}

FRCMaps == {[i \in {0} |-> ONE], [i \in {0, 1} |-> Q(1, 2)]}

InitFRC ==
    /\ UnitRest
    /\ debug_assertions \in BOOLEAN
    /\ pc = "flow_rates_collection"
    /\ inflow = FRCNew
    /\ before = FRCNew
    /\ built_until = ZERO
    /\ outflow = <<>>
    /\ queues = <<>>
    /\ outflow_changes = {}
    /\ depletions = DQNew

FRCUnchanged == UNCHANGED <<outflow, queues, outflow_changes, depletions, pc>>

FRCExtendCall ==
    /\ fault = NoFault
    /\ Len(inflow.queue) < MaxSnapshots
    /\ \E from_time \in FRCTimes, values_map \in FRCMaps :
         \E r \in {FRCExtend(inflow, from_time, values_map, SumMap(values_map),
                             debug_assertions)} :
            /\ inflow' = r.c
            /\ fault' = r.fault
            /\ calls' = <<[op |-> "extend", time |-> from_time, values |-> values_map,
                           result |-> {}]>>
            /\ built_until' = IF inflow.queue = <<>> THEN from_time ELSE built_until
    /\ before' = inflow
    /\ FRCUnchanged
    /\ UnitFrame

FRCGetCall ==
    /\ fault = NoFault
    /\ \E time \in FRCTimes :
         \E r \in {get_values_at_time(inflow, time)} :
            /\ inflow' = r.c
            /\ fault' = r.fault
            /\ calls' = <<[op |-> "get_values_at_time", time |-> time,
                           values |-> EmptyMap, result |-> r.values]>>
            /\ built_until' = IF inflow.queue = <<>> THEN built_until
                               ELSE NumMax(built_until, time)
    /\ before' = inflow
    /\ FRCUnchanged
    /\ UnitFrame

NextFRC == FRCExtendCall \/ FRCGetCall

SpecFRC == InitFRC /\ [][NextFRC]_vars

\* The indices of the snapshots of queue with time <= t.
AtOrBefore(queue, t) == {k \in 1..Len(queue) : NumLe(queue[k].time, t)}

\* The last call was get_values_at_time.
GetCalled == calls # <<>> /\ LastCall.op = "get_values_at_time"

\* C14: get_values_at_time(t) returns None on a collection that was never
\* extended; otherwise, when the earliest retained snapshot has time <= t, it
\* returns the rate map of the latest snapshot with time <= t and evicts only
\* snapshots before that one, so that the queue is never emptied.
C14_GetValuesAtTime ==
    GetCalled =>
        /\ before.queue = <<>> => LastCall.result = {} /\ inflow = before
        /\ (before.queue # <<>> /\ NumLe(before.queue[1].time, LastCall.time)) =>
               /\ fault = NoFault
               /\ LastCall.result =
                      {before.queue[LastIndex(AtOrBefore(before.queue, LastCall.time))].values}
               /\ inflow.queue # <<>>
               /\ \E n \in 0..(Len(before.queue) - 1) :
                      /\ inflow.queue = SubSeq(before.queue, n + 1, Len(before.queue))
                      /\ \A k \in 1..n : NumLe(before.queue[k].time, LastCall.time)

\* C14 under the assumption that the retained snapshot times are
\* non-decreasing in insertion order.
C14_SortedQueue ==
    (GetCalled /\ \A k \in 1..(Len(before.queue) - 1) :
                      NumLe(before.queue[k].time, before.queue[k + 1].time))
        => C14_GetValuesAtTime

\* C15: get_values_at_time(t) fails fatally when the earliest retained
\* snapshot has time > t, and only then; the earliest retained snapshot is
\* never later than the watermark, so queries at non-decreasing times from the
\* first snapshot's time on never fail.
C15_GetValuesFails ==
    /\ inflow.queue # <<>> => NumLe(inflow.queue[1].time, built_until)
    /\ GetCalled =>
           (fault # NoFault <=>
                (before.queue # <<>> /\ NumLt(LastCall.time, before.queue[1].time)))

\* A query failed because an earlier query at a later time had evicted the
\* snapshot it asked for: the time asked for is not before the first snapshot.
C15_Witness ==
    /\ GetCalled
    /\ fault = "panic"
    /\ Len(before.accumulative.points) >= 2
    /\ NumLe(before.accumulative.points[2][1], LastCall.time)

\* In the collection c, on every interval [x_k, x_k+1) between breakpoints of
\* the accumulative function (the last one unbounded), the slope of the
\* accumulative function is the sum of the per-commodity rates.
SlopesAreSums(c) ==
    \A k \in 1..Len(c.accumulative.points) :
        gradient(c.accumulative, k) =
            SumOver([i \in DOMAIN c.function_by_comm |->
                        PCEval(c.function_by_comm[i], c.accumulative.points[k][1])],
                    DOMAIN c.function_by_comm)

\* C16: accumulative consistency: after any sequence of extend calls of the
\* engine that returned, in the inflow and the outflow collection of every
\* edge the slope of the accumulative function on each interval between
\* breakpoints is the sum of the per-commodity rates on that interval.
C16_AccumulativeConsistency ==
    fault = NoFault =>
        \A e \in Edges(num_edges) : SlopesAreSums(inflow[e]) /\ SlopesAreSums(outflow[e])

\* The snapshot times of the deque are non-decreasing within TOL.
SnapshotsInOrder(queue) ==
    \A k \in 1..(Len(queue) - 1) : LeTol(NumSub(queue[k].time, queue[k + 1].time), 1)

\* C17: snapshot order: for every edge, the times of the snapshots of its
\* inflow collection and of its outflow collection are non-decreasing within
\* TOL in insertion order (also in the memory that an aborted call leaves).
C17_SnapshotOrder ==
    \A e \in Edges(num_edges) :
        SnapshotsInOrder(inflow[e].queue) /\ SnapshotsInOrder(outflow[e].queue)

\* An edge whose outflow collection holds two snapshots of different times,
\* the later one placed by a returned call.
C17_Witness ==
    /\ fault = NoFault
    /\ \E e \in Edges(num_edges) :
           /\ Len(outflow[e].queue) >= 2
           /\ NumLt(outflow[e].queue[1].time, outflow[e].queue[2].time)
           /\ Len(inflow[e].queue) >= 2
           /\ NumLt(inflow[e].queue[1].time, inflow[e].queue[2].time)

(***************************************************************************)
(* PiecewiseConstant on its own (piecewise_constant.rs:12-72), as driven   *)
(* by it_evals_correctly and it_extends_correctly (lines 80-109): any      *)
(* sequence of extend calls on one of the functions of the tests.  The     *)
(* times and values offered are small integers and 1 + TOL, which is       *)
(* within tolerance of 1.  A call with from_time < last.x - TOL breaks     *)
(* the precondition of extend (line 61): a debug build aborts, a release   *)
(* build goes on with pc = "precondition_violated", and no further call is *)
(* made.                                                                   *)
(***************************************************************************)
MaxPCTime == 2

MaxPCValue == 2

OnePlusTol == NumAdd(ONE, TOL)

PCTimes == {Int2Num(k) : k \in 0..MaxPCTime} \cup {OnePlusTol}

PCValues == {Int2Num(k) : k \in 0..MaxPCValue} \cup {OnePlusTol}

\* points![(0.0, 0.0)] (line 96) and points![(1.0, 1.0), (2.0, 2.0)] (line 84).
PCStarts ==
    {[domain |-> <<NumNeg(INFINITY), INFINITY>>, points |-> pts] :
        pts \in {<< <<ZERO, ZERO>> >>, << <<ONE, ONE>>, <<Int2Num(2), Int2Num(2)>> >>}}

InitPC ==
    /\ UnitRest
    /\ debug_assertions \in BOOLEAN
    /\ pc = "piecewise_constant"
    /\ inflow \in PCStarts
    /\ before = inflow
    /\ built_until = ZERO
    /\ outflow = <<>>
    /\ queues = <<>>
    /\ outflow_changes = {}
    /\ depletions = DQNew

PCExtendCall ==
    /\ fault = NoFault
    /\ pc = "piecewise_constant"
    /\ \E from_time \in PCTimes, value \in PCValues :
         \E r \in {PCExtend(inflow, from_time, value, debug_assertions)} :
            /\ inflow' = r.f
            /\ fault' = r.fault
            /\ calls' = <<[op |-> "extend", time |-> from_time, value |-> value]>>
            /\ pc' = IF LeTol(NumSub(Last(inflow.points)[1], from_time), 1) THEN pc
                     ELSE "precondition_violated"
    /\ before' = inflow
    /\ UNCHANGED <<built_until, outflow, queues, outflow_changes, depletions>>
    /\ UnitFrame

NextPC == PCExtendCall

SpecPC == InitPC /\ [][NextPC]_vars

\* The last call was an extend that met its precondition.
Extended == calls # <<>> /\ pc = "piecewise_constant" /\ fault = NoFault

\* C18: extend(t, v) with t >= last.x - TOL: if |v - last.y| <= TOL nothing
\* changes; else if |t - last.x| <= TOL the last point's value becomes v and no
\* point is added; else (t, v) is appended.  So extending with the last value
\* adds no point: from [(0,0)], extend(1,1); extend(1+TOL,2); extend(2,2)
\* yields [(0,0),(1,2)].
C18_ExtendRules ==
    /\ Extended =>
          /\ inflow.domain = before.domain
          /\ inflow.points =
                IF LeTol(NumAbs(NumSub(LastCall.value, Last(before.points)[2])), 1)
                THEN before.points
                ELSE IF LeTol(NumAbs(NumSub(LastCall.time, Last(before.points)[1])), 1)
                THEN [before.points EXCEPT
                         ![Len(before.points)] = <<Last(before.points)[1], LastCall.value>>]
                ELSE before.points \o << <<LastCall.time, LastCall.value>> >>
    /\ PCExtend(PCExtend(PCExtend([domain |-> <<NumNeg(INFINITY), INFINITY>>,
                                   points |-> << <<ZERO, ZERO>> >>],
                                  ONE, ONE, TRUE).f,
                         OnePlusTol, Int2Num(2), TRUE).f,
                Int2Num(2), Int2Num(2), TRUE).f.points
           = << <<ZERO, ZERO>>, <<ONE, Int2Num(2)>> >>

\* An extend at a time within TOL after the last point has overwritten the
\* last point's value.
C18_Witness ==
    /\ Extended
    /\ LastCall.time = OnePlusTol
    /\ Last(before.points)[1] = ONE
    /\ Len(inflow.points) = Len(before.points)
    /\ inflow.points # before.points

\* The indices of the points with x <= at.
AtOrBeforeX(points, at) == {k \in 1..Len(points) : NumLe(points[k][1], at)}

\* The times at which eval is probed: those offered to extend and one before
\* every first point.
PCProbes == PCTimes \cup {Int2Num(-1)}

\* C19: point order: after extend calls that meet the precondition, the
\* points are still strictly ascending in x, only the last point's value or
\* an appended point has changed, and eval is right-continuous: at and after a
\* breakpoint, up to the next one, it is that breakpoint's y; before the first
\* point it is the first y.
C19_PointOrder ==
    (pc = "piecewise_constant" /\ fault = NoFault) =>
        /\ \A k \in 1..(Len(inflow.points) - 1) :
               NumLt(inflow.points[k][1], inflow.points[k + 1][1])
        /\ Len(inflow.points) \in {Len(before.points), Len(before.points) + 1}
        /\ \A k \in 1..(Len(before.points) - 1) : inflow.points[k] = before.points[k]
        /\ inflow.points[Len(before.points)][1] = Last(before.points)[1]
        /\ \A x \in PCProbes :
               PCEval(inflow, x) =
                   IF AtOrBeforeX(inflow.points, x) = {} THEN inflow.points[1][2]
                   ELSE inflow.points[LastIndex(AtOrBeforeX(inflow.points, x))][2]

\* A function that has grown by two points, one of them at 1 + TOL.
C19_Witness ==
    /\ Extended
    /\ Len(inflow.points) >= 3
    /\ \E k \in 1..Len(inflow.points) : inflow.points[k][1] = OnePlusTol

(***************************************************************************)
(* The binary operations of PiecewiseLinear (piecewise_linear.rs:189-343). *)
(***************************************************************************)
\* The closures |a, b| a + b and |a, b| a - b handed to sum_op.
Apply(op, a, b) == IF op = "add" THEN NumAdd(a, b) ELSE NumSub(a, b)

\* F64::EXACT_ARITHMETIC
EXACT_ARITHMETIC == FALSE

\* The closure time_in_tolerance: t lies more than TOL after the last point of
\* list (p.0 < t - TOL, written as t - p.0 > TOL).
time_in_tolerance(t, list) ==
    \/ list = <<>>
    \/ ~LeTol(NumSub(t, Last(list)[1]), 1)

\* Result<usize, usize> as the lower (Ok(i) => i) and the upper
\* (Ok(i) => i + 1) end of a range of indices.
RngLo(rnk) == rnk.i

RngHi(rnk) == IF rnk.ok THEN rnk.i + 1 ELSE rnk.i

\* first_point and last_point: None (the empty sequence) if either function
\* has a breakpoint at the edge, else the point of the result at the edge.
EdgePoint(lhs, rhs, op, at, lhs_rnk, rhs_rnk) ==
    IF lhs_rnk.ok \/ rhs_rnk.ok THEN <<>>
    ELSE << <<at, Apply(op, eval_with_rank(lhs, lhs_rnk, at),
                            eval_with_rank(rhs, rhs_rnk, at))>> >>

\* Itertools::merge_join_by on the x-coordinates of two ascending slices.
RECURSIVE merge_join_by(_, _)
merge_join_by(l, r) ==
    IF l = <<>> /\ r = <<>> THEN <<>>
    ELSE IF r = <<>> THEN <<[side |-> "Left", p |-> Head(l), q |-> Head(l)]>>
                          \o merge_join_by(Tail(l), r)
    ELSE IF l = <<>> THEN <<[side |-> "Right", p |-> Head(r), q |-> Head(r)]>>
                          \o merge_join_by(l, Tail(r))
    ELSE IF NumLt(Head(l)[1], Head(r)[1])
    THEN <<[side |-> "Left", p |-> Head(l), q |-> Head(l)]>> \o merge_join_by(Tail(l), r)
    ELSE IF NumLt(Head(r)[1], Head(l)[1])
    THEN <<[side |-> "Right", p |-> Head(r), q |-> Head(r)]>> \o merge_join_by(l, Tail(r))
    ELSE <<[side |-> "Both", p |-> Head(l), q |-> Head(r)]>>
         \o merge_join_by(Tail(l), Tail(r))

\* A loop arm that takes a breakpoint of rhs alone as the new point, without
\* the value of lhs there.
SumOpArmRightAlone(lhs, rhs, op, it, cur_i, cur_j) ==
    IF it.side = "Left"
    THEN <<it.p[1], Apply(op, it.p[2],
                          eval_with_rank(rhs, [ok |-> FALSE, i |-> cur_j], it.p[1]))>>
    ELSE IF it.side = "Right"
    THEN <<it.q[1], Apply(op, ZERO, it.q[2])>>
    ELSE <<it.q[1], Apply(op, it.p[2], it.q[2])>>

\* One arm of the match in the loop of sum_op: the point it computes.
SumOpArm(lhs, rhs, op, it, cur_i, cur_j) ==
    IF it.side = "Left"
    THEN <<it.p[1], Apply(op, it.p[2],
                          eval_with_rank(rhs, [ok |-> FALSE, i |-> cur_j], it.p[1]))>>
    ELSE IF it.side = "Right"
    THEN <<it.q[1], Apply(op, eval_with_rank(lhs, [ok |-> FALSE, i |-> cur_i], it.q[1]),
                          it.q[2])>>
    ELSE <<it.q[1], Apply(op, it.p[2], it.q[2])>>

\* The loop of sum_op over the merged points; cur_i and cur_j count the
\* points of lhs and rhs left behind, and a point is pushed only if it lies
\* more than TOL after the last point pushed.
RECURSIVE SumOpLoop(_, _, _, _, _, _, _)
SumOpLoop(lhs, rhs, op, items, cur_i, cur_j, new_points) ==
    IF items = <<>> THEN new_points
    ELSE LET Go(i, j, pt) ==
                 SumOpLoop(lhs, rhs, op, Tail(items), i, j,
                           IF EXACT_ARITHMETIC \/ time_in_tolerance(pt[1], new_points)
                           THEN Append(new_points, pt) ELSE new_points)
         IN  Go(IF Head(items).side = "Right" THEN cur_i ELSE cur_i + 1,
                IF Head(items).side = "Left" THEN cur_j ELSE cur_j + 1,
                SumOpArm(lhs, rhs, op, Head(items),
                         IF Head(items).side = "Right" THEN cur_i ELSE cur_i + 1,
                         IF Head(items).side = "Left" THEN cur_j ELSE cur_j + 1))

\* sum_op(lhs, rhs, op).  A slice whose start lies after its end is a panic.
sum_op(lhs, rhs, op) ==
    LET Build(new_domain, lhs_rng, rhs_rng, first_point, last_point) ==
            IF lhs_rng[1] > lhs_rng[2] \/ rhs_rng[1] > rhs_rng[2]
            THEN [f |-> lhs, fault |-> "panic"]
            ELSE [f |-> [domain |-> new_domain,
                         first_slope |-> Apply(op, lhs.first_slope, rhs.first_slope),
                         last_slope |-> Apply(op, lhs.last_slope, rhs.last_slope),
                         points |->
                             SumOpLoop(lhs, rhs, op,
                                       merge_join_by(
                                           SubSeq(lhs.points, lhs_rng[1] + 1, lhs_rng[2]),
                                           SubSeq(rhs.points, rhs_rng[1] + 1, rhs_rng[2])),
                                       lhs_rng[1], rhs_rng[1], first_point)
                             \o last_point],
                  fault |-> NoFault]
        Ranges(new_domain, l_domain_changed, r_domain_changed) ==
            Build(new_domain,
                  <<IF l_domain_changed
                    THEN RngLo(get_rnk(lhs.points, new_domain[1])) ELSE 0,
                    IF r_domain_changed
                    THEN RngHi(get_rnk(lhs.points, new_domain[2])) ELSE Len(lhs.points)>>,
                  <<IF l_domain_changed
                    THEN RngLo(get_rnk(rhs.points, new_domain[1])) ELSE 0,
                    IF r_domain_changed
                    THEN RngHi(get_rnk(rhs.points, new_domain[2])) ELSE Len(rhs.points)>>,
                  IF l_domain_changed
                  THEN EdgePoint(lhs, rhs, op, new_domain[1],
                                 get_rnk(lhs.points, new_domain[1]),
                                 get_rnk(rhs.points, new_domain[1]))
                  ELSE <<>>,
                  IF r_domain_changed
                  THEN EdgePoint(lhs, rhs, op, new_domain[2],
                                 get_rnk(lhs.points, new_domain[2]),
                                 get_rnk(rhs.points, new_domain[2]))
                  ELSE <<>>)
        WithDomain(new_domain) ==
            Ranges(new_domain,
                  new_domain[1] # lhs.domain[1] \/ new_domain[1] # rhs.domain[1],
                  new_domain[2] # lhs.domain[2] \/ new_domain[2] # rhs.domain[2])
    IN  WithDomain(<<NumMax(lhs.domain[1], rhs.domain[1]),
                 NumMin(lhs.domain[2], rhs.domain[2])>>)

(***************************************************************************)
(* PiecewiseLinear on its own: `&lhs + &rhs` and `&lhs - &rhs` on two      *)
(* functions that PiecewiseLinear::new accepts (piecewise_linear.rs:18-49),*)
(* as in it_adds_two_piecewise_linear_functions (lines 377-388).           *)
(* queues holds lhs, rhs and, after the call, the result.                  *)
(***************************************************************************)
MaxPLX == 2

\* The domains: the whole line and the intervals between two breakpoints.
PLDomains ==
    {<<NumNeg(INFINITY), INFINITY>>}
        \cup {<<Int2Num(a), Int2Num(b)>> : a \in 0..MaxPLX, b \in 1..MaxPLX}

\* (first_slope, last_slope)
PLSlopes == {<<ONE, ONE>>, <<ZERO, Int2Num(2)>>}

\* The y-coordinates: the identity of the unit test and a function with kinks.
PLShapes == {"identity", "square"}

PLPoints(xs, shape) ==
    [k \in 1..Cardinality(xs) |->
        LET Pt(x) == <<Int2Num(x), Int2Num(IF shape = "identity" THEN x ELSE x * x)>>
        IN  Pt(CHOOSE x \in xs : Cardinality({y \in xs : y < x}) = k - 1)]

\* What PiecewiseLinear::new asserts of its arguments.
WellFormed(f) ==
    /\ NumLe(f.domain[1], f.domain[2])
    /\ Len(f.points) >= 1
    /\ NumLe(f.domain[1], f.points[1][1])
    /\ NumLe(Last(f.points)[1], f.domain[2])
    /\ \A k \in 1..(Len(f.points) - 1) : NumLt(f.points[k][1], f.points[k + 1][1])

PLFuns ==
    {f \in {[domain |-> d, first_slope |-> s[1], last_slope |-> s[2],
             points |-> PLPoints(xs, sh)] :
                d \in PLDomains, s \in PLSlopes, sh \in PLShapes,
                xs \in SUBSET (0..MaxPLX)} : WellFormed(f)}

\* Two functions whose only breakpoints lie TOL apart.
PLBreakAtOne ==
    [domain |-> <<NumNeg(INFINITY), INFINITY>>, first_slope |-> ZERO,
     last_slope |-> ZERO, points |-> << <<ONE, ZERO>> >>]

PLBreakAfterOne ==
    [domain |-> <<NumNeg(INFINITY), INFINITY>>, first_slope |-> ZERO,
     last_slope |-> ONE, points |-> << <<OnePlusTol, ZERO>> >>]

InitPL ==
    /\ UnitRest
    /\ debug_assertions \in BOOLEAN
    /\ pc = "piecewise_linear"
    /\ queues \in (PLFuns \X PLFuns)
                     \cup {<<PLBreakAtOne, PLBreakAfterOne>>,
                           <<PLBreakAfterOne, PLBreakAtOne>>}
    /\ inflow = <<>>
    /\ before = <<>>
    /\ built_until = ZERO
    /\ outflow = <<>>
    /\ outflow_changes = {}
    /\ depletions = DQNew

PLCall(op) ==
    /\ pc = "piecewise_linear"
    /\ Len(queues) = 2
    /\ \E r \in {sum_op(queues[1], queues[2], op)} :
          /\ queues' = IF r.fault = NoFault THEN Append(queues, r.f) ELSE queues
          /\ fault' = r.fault
    /\ calls' = <<[op |-> op]>>
    /\ UNCHANGED <<built_until, inflow, outflow, outflow_changes, depletions, pc, before>>
    /\ UnitFrame

\* impl Add<&PiecewiseLinear<T>> for &PiecewiseLinear<T>
PLAddCall == PLCall("add")

\* impl Sub<&PiecewiseLinear<T>> for &PiecewiseLinear<T>
PLSubCall == PLCall("sub")

NextPL == PLAddCall \/ PLSubCall

SpecPL == InitPL /\ [][NextPL]_vars

\* A binary operation has returned its result.
Combined == pc = "piecewise_linear" /\ Len(queues) = 3

\* The arguments at which the functions are compared: 0, 1/2, 1, ..., MaxPLX.
PLProbes == {Q(k, 2) : k \in 0..(2 * MaxPLX)}

InDomain(domain, x) == NumLe(domain[1], x) /\ NumLe(x, domain[2])

\* The result has the intersection of the two domains as its domain.
ResultDomain(lhs, rhs, res) ==
    res.domain = <<NumMax(lhs.domain[1], rhs.domain[1]),
                   NumMin(lhs.domain[2], rhs.domain[2])>>

StrictlyAscending(points) ==
    \A k \in 1..(Len(points) - 1) : NumLt(points[k][1], points[k + 1][1])

\* The result is the pointwise operation at every probed argument of its domain.
Pointwise(lhs, rhs, res, op) ==
    \A x \in PLProbes :
        InDomain(res.domain, x) =>
            PLEval(res, x) = Apply(op, PLEval(lhs, x), PLEval(rhs, x))

\* C20: binary operation: for + and - and any two well-formed functions, the
\* result has the domain [max(a_l, a_r), min(b_l, b_r)], strictly ascending
\* points, and at every x of that domain the value op(lhs.eval(x),
\* rhs.eval(x)); the identity on [0, 1] added to itself has the points
\* [(0, 0), (1, 2)].
C20_BinaryOperation ==
    /\ Combined =>
          /\ ResultDomain(queues[1], queues[2], queues[3])
          /\ StrictlyAscending(queues[3].points)
          /\ Pointwise(queues[1], queues[2], queues[3], LastCall.op)
    /\ \A id \in {[domain |-> <<ZERO, ONE>>, first_slope |-> ONE, last_slope |-> ONE,
                   points |-> << <<ZERO, ZERO>>, <<ONE, ONE>> >>]} :
           sum_op(id, id, "add").f.points = << <<ZERO, ZERO>>, <<ONE, Int2Num(2)>> >>

\* What does hold of every result: the domain, no panic, and the example.
C20_DomainAndExample ==
    /\ fault = NoFault
    /\ Combined => ResultDomain(queues[1], queues[2], queues[3])
    /\ \A id \in {[domain |-> <<ZERO, ONE>>, first_slope |-> ONE, last_slope |-> ONE,
                   points |-> << <<ZERO, ZERO>>, <<ONE, ONE>> >>]} :
           /\ id \in PLFuns
           /\ sum_op(id, id, "add").f.points = << <<ZERO, ZERO>>, <<ONE, Int2Num(2)>> >>

\* The points are strictly ascending unless the two domains only touch.
C20_AscendingUnlessTouching ==
    (Combined /\ queues[3].domain[1] # queues[3].domain[2]) =>
        StrictlyAscending(queues[3].points)

\* The values are right unless two breakpoints of the arguments lie within
\* TOL of each other.
C20_PointwiseUnlessCollapsed ==
    (Combined /\ queues[1] \in PLFuns /\ queues[2] \in PLFuns) =>
        Pointwise(queues[1], queues[2], queues[3], LastCall.op)

\* C21: addition is commutative: for any two well-formed functions f and g,
\* f + g and g + f have the same domain, the same first and last slopes and
\* the same points; with breakpoints within TOL of each other both orders
\* keep the same (earlier) breakpoint.
C21_AddCommutative ==
    (Combined /\ LastCall.op = "add") =>
        /\ sum_op(queues[2], queues[1], "add").fault = NoFault
        /\ sum_op(queues[2], queues[1], "add").f = queues[3]

\* Two different functions with different domains have been added, and the
\* sum has a breakpoint that only one of them has.
C21_Witness ==
    /\ Combined
    /\ LastCall.op = "add"
    /\ queues[1].domain # queues[2].domain
    /\ \E k \in 1..Len(queues[3].points) :
          /\ \A j \in 1..Len(queues[1].points) :
                 queues[1].points[j][1] # queues[3].points[k][1]
          /\ \E j \in 1..Len(queues[2].points) :
                 queues[2].points[j][1] = queues[3].points[k][1]

(***************************************************************************)
(* The per-edge updates of the last extend call, seen from the flow before *)
(* the call (`before`) and the arguments recorded in `calls`.              *)
(***************************************************************************)
\* The edges that the last call updated: those whose new inflow map differs
\* from the snapshot at built_until (dynamic_flow.rs:179-185).
UpdatedEdges ==
    IF calls = <<>> THEN {}
    ELSE {e \in DOMAIN Last(calls).new_inflow :
             ~Unchanged(get_values_at_time(before.inflow[e], before.built_until).values,
                        Last(calls).new_inflow[e])}

\* acc_in and cur_queue of the update of edge e (dynamic_flow.rs:186-187).
AccIn(e) == SumMap(Last(calls).new_inflow[e])

CurQueue(e) == NumMax(PLEval(before.queues[e], before.built_until), ZERO)

\* The edges that the last call updated through the given case.
UpdatedBy(case) ==
    {e \in UpdatedEdges : CaseOf(AccIn(e), CurQueue(e), capacity[e]) = case}

\* The flow after the update of edge e alone.
EdgeUpdate(e) == ExtendEdge(before, e, Last(calls).new_inflow[e], Params)

\* C22: Case III depletion schedule: an update of an edge with 0 < cur_queue
\* and 0 < acc_in < capacity - TOL schedules the depletion at
\* built_until + cur_queue / (capacity - acc_in), strictly after built_until,
\* and the change event at that time plus travel_time.
C22_CaseIIISchedule ==
    \A e \in UpdatedBy("III") :
        EdgeUpdate(e).fault = NoFault =>
            /\ e \in DOMAIN EdgeUpdate(e).depletions.depletions
            /\ e \in DOMAIN EdgeUpdate(e).depletions.change_times_after_a_depletion
            /\ EdgeUpdate(e).depletions.depletions[e] =
                   NumAdd(before.built_until,
                          NumDiv(CurQueue(e), NumSub(capacity[e], AccIn(e))))
            /\ NumLt(before.built_until, EdgeUpdate(e).depletions.depletions[e])
            /\ EdgeUpdate(e).depletions.change_times_after_a_depletion[e] =
                   NumAdd(EdgeUpdate(e).depletions.depletions[e], travel_time[e])

\* What Case III does schedule: the depletion at
\* built_until - cur_queue / (capacity - acc_in), before built_until, and the
\* change event at that time plus travel_time.
C22_ScheduledInThePast ==
    \A e \in UpdatedBy("III") :
        EdgeUpdate(e).fault = NoFault =>
            /\ EdgeUpdate(e).depletions.depletions[e] =
                   NumSub(before.built_until,
                          NumDiv(CurQueue(e), NumSub(capacity[e], AccIn(e))))
            /\ NumLt(EdgeUpdate(e).depletions.depletions[e], before.built_until)
            /\ EdgeUpdate(e).depletions.change_times_after_a_depletion[e] =
                   NumAdd(EdgeUpdate(e).depletions.depletions[e], travel_time[e])

\* C23: Case III post-depletion outflow: the change event scheduled in Case
\* III carries the edge's new inflow map as its outflow map and acc_in as its
\* sum, so that the values of the map add up to the carried sum.
C23_CaseIIIChangeEvent ==
    \A e \in UpdatedBy("III") :
        EdgeUpdate(e).fault = NoFault =>
            /\ e \in DOMAIN EdgeUpdate(e).depletions.new_outflow
            /\ EdgeUpdate(e).depletions.new_outflow[e].new_outflow_map =
                   Last(calls).new_inflow[e]
            /\ EdgeUpdate(e).depletions.new_outflow[e].values_sum = AccIn(e)
            /\ SumMap(EdgeUpdate(e).depletions.new_outflow[e].new_outflow_map) =
                   EdgeUpdate(e).depletions.new_outflow[e].values_sum

\* What the event does carry: the sum acc_in, with the map of the rates
\* scaled by capacity / acc_in, which add up to the capacity.
C23_EventCarriesQueueingOutflow ==
    \A e \in UpdatedBy("III") :
        EdgeUpdate(e).fault = NoFault =>
            /\ EdgeUpdate(e).depletions.new_outflow[e].values_sum = AccIn(e)
            /\ EdgeUpdate(e).depletions.new_outflow[e].new_outflow_map =
                   ScaleMap(Last(calls).new_inflow[e], NumDiv(capacity[e], AccIn(e)))
            /\ SumMap(EdgeUpdate(e).depletions.new_outflow[e].new_outflow_map) = capacity[e]

\* The flow after all per-edge updates of the last call, made in the given
\* order of the edges.
AfterUpdates(order) == ExtendEdges(before, order, Last(calls).new_inflow, Params)

\* The times that bound the new built_until: the pending post-depletion change
\* times, the pending outflow-change times and max_extension_time (an Option).
WatermarkCandidates(s, max_extension_time) ==
    {s.depletions.change_times_after_a_depletion[e] :
        e \in DOMAIN s.depletions.change_times_after_a_depletion}
        \cup {c[2] : c \in s.outflow_changes}
        \cup max_extension_time

\* t is the least of the candidates, or INFINITY when there is none.
LeastOf(t, candidates) ==
    /\ candidates = {} <=> t = INFINITY
    /\ candidates # {} => t \in candidates /\ \A c \in candidates : NumLe(t, c)

\* C24: watermark advance rule: after the per-edge updates of an extend call,
\* built_until is the minimum of the earliest pending post-depletion change
\* time, the earliest pending outflow-change time and max_extension_time when
\* given; it is INFINITY exactly when none of the three exists.
C24_WatermarkAdvance ==
    calls # <<>> =>
        \A order \in Orders(DOMAIN Last(calls).new_inflow) :
            AfterUpdates(order).fault = NoFault =>
                LeastOf(built_until,
                        WatermarkCandidates(AfterUpdates(order),
                                            Last(calls).max_extension_time))

\* A call that returned with built_until at a pending outflow change, earlier
\* than the max_extension_time it was given.
C24_Witness ==
    /\ calls # <<>>
    /\ fault = NoFault
    /\ Last(calls).max_extension_time # {}
    /\ NumLt(before.built_until, built_until)
    /\ NumLt(built_until, The(Last(calls).max_extension_time))

\* A call that was stopped by its max_extension_time, before every pending event.
C24_CappedByCaller ==
    /\ calls # <<>>
    /\ fault = NoFault
    /\ Last(calls).max_extension_time = {built_until}
    /\ outflow_changes # {}

\* The last extend call returned, with a finite built_until.
EndedFinite == calls # <<>> /\ fault = NoFault /\ NumLt(built_until, INFINITY)

\* The depletions that are pending in the flow s with a time <= until.
DueDepletions(s, until) ==
    {e \in DOMAIN s.depletions.depletions : NumLe(s.depletions.depletions[e], until)}

\* The depletion of edge e that was pending in s has been processed: the queue
\* of e ends in the breakpoint (depletion time, 0) with slope 0, and a change
\* event that the depletion carried is in the outflow of e at the event's time
\* and has been enqueued (and is pending, or has been reported by this call).
Processed(s, e) ==
    /\ Last(queues[e].points) = <<s.depletions.depletions[e], ZERO>>
    /\ queues[e].last_slope = ZERO
    /\ e \in DOMAIN s.depletions.change_times_after_a_depletion =>
          /\ \E k \in 1..Len(outflow[e].accumulative.points) :
                 outflow[e].accumulative.points[k][1] =
                     s.depletions.change_times_after_a_depletion[e]
          /\ outflow[e].accumulative.last_slope = s.depletions.new_outflow[e].values_sum
          /\ \/ <<e, s.depletions.change_times_after_a_depletion[e]>> \in outflow_changes
             \/ e \in Last(calls).changed_edges

C25_NoCarriedEventInReturnedCall ==
    EndedFinite =>
        \A order \in Orders(DOMAIN Last(calls).new_inflow) :
            \A e \in DueDepletions(AfterUpdates(order), built_until) :
                e \notin DOMAIN AfterUpdates(order).depletions.change_times_after_a_depletion

\* The outflow changes that are pending when the last call collects the
\* changed edges: those pending after the per-edge updates in the flow s, and
\* the change events of the depletions processed since.
PendingAtCollection(s) ==
    s.outflow_changes
        \cup {<<e, s.depletions.change_times_after_a_depletion[e]>> :
                 e \in DueDepletions(s, built_until)
                          \cap DOMAIN s.depletions.change_times_after_a_depletion}

\* C26: changed-edge reporting: an extend call that ends with a finite
\* built_until returns exactly the edges that have a pending outflow change
\* with time <= built_until, removes those entries and leaves every later
\* entry pending (two changes of one edge at distinct times are two entries);
\* so no entry with a time <= built_until stays behind unreported.
C26_ChangedEdges ==
    EndedFinite =>
        \A order \in Orders(DOMAIN Last(calls).new_inflow) :
            /\ Last(calls).changed_edges =
                   {c[1] : c \in {d \in PendingAtCollection(AfterUpdates(order)) :
                                     NumLe(d[2], built_until)}}
            /\ outflow_changes =
                   {d \in PendingAtCollection(AfterUpdates(order)) :
                       NumLt(built_until, d[2])}

\* An edge had two outflow changes pending at distinct times; the call
\* reported the edge for the earlier one and left the later one pending.
C26_Witness ==
    /\ EndedFinite
    /\ \E c \in before.outflow_changes, d \in outflow_changes :
          /\ c[1] = d[1]
          /\ NumLt(c[2], d[2])
          /\ d \in before.outflow_changes
          /\ c \notin outflow_changes
          /\ c[1] \in Last(calls).changed_edges

\* The edges whose pending depletion in the flow s carries a change event at
\* the time t.
EventsAt(s, t) ==
    {e \in DOMAIN s.depletions.change_times_after_a_depletion :
        s.depletions.change_times_after_a_depletion[e] = t}

\* C27: ordering within one extend call: built_until is computed from the flow
\* after all inflow updates of the call, and the depletions at or before it
\* are processed before the changed edges are collected; hence an edge whose
\* depletion change event is at the new built_until is in the set that this
\* same call returns.
C27_OrderingWithinCall ==
    calls # <<>> =>
        \A order \in Orders(DOMAIN Last(calls).new_inflow) :
            AfterUpdates(order).fault = NoFault =>
                /\ LeastOf(built_until,
                           WatermarkCandidates(AfterUpdates(order),
                                               Last(calls).max_extension_time))
                /\ \A e \in EventsAt(AfterUpdates(order), built_until) :
                       fault = NoFault /\ e \in Last(calls).changed_edges

\* What holds of the order: a call that returns has made its updates before
\* it computed built_until (an outflow change pushed by the call itself bounds
\* it), and has collected the changed edges after the depletions were
\* processed (no depletion at or before built_until is pending, no outflow
\* change at or before built_until is left).
C27_OrderOfReturnedCalls ==
    (calls # <<>> /\ fault = NoFault) =>
        /\ \A c \in outflow_changes : NumLt(built_until, c[2])
        /\ NumLt(built_until, INFINITY) => DueDepletions(Flow, built_until) = {}
        /\ \A order \in Orders(DOMAIN Last(calls).new_inflow) :
               \A c \in AfterUpdates(order).outflow_changes : NumLe(built_until, c[2])

\* Every call with a depletion change event at the new built_until aborts.
C27_EventAtWatermarkAborts ==
    calls # <<>> =>
        \A order \in Orders(DOMAIN Last(calls).new_inflow) :
            (/\ AfterUpdates(order).fault = NoFault
             /\ EventsAt(AfterUpdates(order), built_until) # {}) => fault = "panic"

\* The arrival time of the update of edge e:
\* built_until + cur_queue / capacity + travel_time.
ArrivalOf(e) ==
    NumAdd(NumAdd(before.built_until, NumDiv(CurQueue(e), capacity[e])), travel_time[e])

\* The update of edge e with result r has written the outflow map m with the
\* sum total at the time ArrivalOf(e): as the last snapshot, as the slope of
\* the accumulative function and as the values of the commodities' functions.
WroteOutflow(r, e, m, total) ==
    /\ r.outflow[e].queue # <<>>
    /\ Last(r.outflow[e].queue) = [time |-> ArrivalOf(e), values |-> m]
    /\ r.outflow[e].accumulative.last_slope = total
    /\ \A i \in DOMAIN m :
           /\ i \in DOMAIN r.outflow[e].function_by_comm
           /\ PCEval(r.outflow[e].function_by_comm[i], ArrivalOf(e)) = m[i]

\* The effects of Case II on edge e, r being the flow after the update.
CaseIIEffects(r, e) ==
    /\ WroteOutflow(r, e,
                    [i \in DOMAIN Last(calls).new_inflow[e] |->
                        NumDiv(NumMul(Last(calls).new_inflow[e][i],
                                      NumMin(capacity[e], AccIn(e))),
                               AccIn(e))],
                    NumMin(capacity[e], AccIn(e)))
    /\ r.queues[e].last_slope = NumMax(NumSub(AccIn(e), capacity[e]), ZERO)
    /\ Last(r.queues[e].points) = <<before.built_until, CurQueue(e)>>
    /\ e \notin DOMAIN r.depletions.depletions
    /\ e \notin DOMAIN r.depletions.change_times_after_a_depletion

\* A flow on one edge of capacity 1 and travel time 1 with a queue of 1 at
\* built_until = 1 (inflow 2 since time 0), and the arguments of its calls.
QueueingParams ==
    [capacity |-> [e \in {0} |-> ONE], inv_capacity |-> [e \in {0} |-> ONE],
     travel_time |-> [e \in {0} |-> ONE], dbg |-> FALSE]

QueueingFlow ==
    Extend(DynamicFlowNew(1), [e \in {0} |-> [i \in {0} |-> Int2Num(2)]], <<0>>, <<0>>,
           {ONE}, QueueingParams).s

\* QueueingFlow after a further call with no inflow, stopped at time 3/2: the
\* queue drains and its depletion is pending at time 2.
DrainingFlow ==
    Extend(QueueingFlow, [e \in {0} |-> [i \in {0} |-> ZERO]], <<0>>, <<0>>,
           {Q(3, 2)}, QueueingParams).s

\* On QueueingFlow the inflow 1 - TOL is Case II.
SaturatedWithinTol ==
    \A r \in {ExtendEdge(QueueingFlow, 0, [i \in {0} |-> NumSub(ONE, TOL)],
                            QueueingParams)} :
           /\ QueueingFlow.built_until = ONE
           /\ PLEval(QueueingFlow.queues[0], ONE) = ONE
           /\ r.fault = NoFault
           /\ 0 \notin DOMAIN r.depletions.depletions
           /\ r.queues[0].last_slope = ZERO
           /\ Last(r.outflow[0].queue) =
                  [time |-> Int2Num(3), values |-> [i \in {0} |-> NumSub(ONE, TOL)]]

\* On QueueingFlow the inflow 1 - 2 TOL is Case III.
UnsaturatedBeyondTol ==
    \A r \in {ExtendEdge(QueueingFlow, 0, [i \in {0} |-> NumSub(ONE, NumAdd(TOL, TOL))],
                            QueueingParams)} :
           /\ 0 \in DOMAIN r.depletions.change_times_after_a_depletion
           /\ r.queues[0].last_slope = NumNeg(NumAdd(TOL, TOL))

\* On DrainingFlow the inflow 2 is Case II and removes the pending depletion.
RefillRemovesDepletion ==
    \A r \in {ExtendEdge(DrainingFlow, 0, [i \in {0} |-> Int2Num(2)], QueueingParams)} :
           /\ DrainingFlow.built_until = Q(3, 2)
           /\ DrainingFlow.depletions.depletions = [e \in {0} |-> Int2Num(2)]
           /\ r.fault = NoFault
           /\ r.depletions = DQNew
           /\ r.queues[0].last_slope = ONE
           /\ Last(r.queues[0].points) = <<Q(3, 2), Q(1, 2)>>
           /\ Last(r.outflow[0].queue) =
                  [time |-> Int2Num(3), values |-> [i \in {0} |-> ONE]]

\* C28: case selection and Case II: an update with acc_in = 0 is Case I (it
\* writes the empty outflow map); otherwise with cur_queue = 0 or
\* acc_in >= capacity - TOL it is Case II; otherwise Case III (it schedules a
\* depletion with a change event).  Case II writes the outflow at
\* built_until + cur_queue/capacity + travel_time with the sum
\* min(capacity, acc_in) and the inflow rates scaled by
\* min(capacity, acc_in)/acc_in, gives the queue the slope
\* max(acc_in - capacity, 0) from built_until, and removes a pending depletion
\* of the edge.  On an edge of capacity 1 with a queue, the inflow 1 - TOL is
\* Case II and the inflow 1 - 2 TOL is Case III; the inflow 2 on that edge
\* while its queue drains removes the pending depletion.
C28_CaseSelection ==
    /\ \A e \in UpdatedEdges :
           EdgeUpdate(e).fault = NoFault =>
               IF AccIn(e) = ZERO
               THEN WroteOutflow(EdgeUpdate(e), e, EmptyMap, ZERO)
               ELSE IF CurQueue(e) = ZERO \/ LeTol(NumSub(capacity[e], AccIn(e)), 1)
               THEN CaseIIEffects(EdgeUpdate(e), e)
               ELSE /\ e \in DOMAIN EdgeUpdate(e).depletions.change_times_after_a_depletion
                    /\ EdgeUpdate(e).outflow[e].accumulative.last_slope = capacity[e]
    /\ SaturatedWithinTol
    /\ UnsaturatedBeyondTol
    /\ RefillRemovesDepletion

\* A Case II update of an edge that has a queue and more inflow than capacity.
C28_Witness ==
    \E e \in UpdatedBy("II") :
        /\ EdgeUpdate(e).fault = NoFault
        /\ NumLt(ZERO, CurQueue(e))
        /\ NumLt(capacity[e], AccIn(e))
        /\ Cardinality(DOMAIN Last(calls).new_inflow[e]) = 2

\* The effects of Case I on edge e, r being the flow after the update.
CaseIEffects(r, e) ==
    /\ WroteOutflow(r, e, EmptyMap, ZERO)
    /\ <<e, ArrivalOf(e)>> \in r.outflow_changes
    /\ Last(r.queues[e].points) = <<before.built_until, CurQueue(e)>>
    /\ IF CurQueue(e) = ZERO
       THEN /\ r.queues[e].last_slope = ZERO
            /\ e \notin DOMAIN r.depletions.depletions
            /\ e \notin DOMAIN r.depletions.change_times_after_a_depletion
       ELSE /\ r.queues[e].last_slope = NumNeg(capacity[e])
            /\ e \in DOMAIN r.depletions.depletions
            /\ r.depletions.depletions[e] =
                   NumAdd(before.built_until, NumDiv(CurQueue(e), capacity[e]))
            /\ e \notin DOMAIN r.depletions.change_times_after_a_depletion
            /\ e \notin DOMAIN r.depletions.new_outflow

\* C29: Case I: when the new total inflow of an edge is 0, its outflow is
\* extended with sum 0 at built_until + cur_queue/capacity + travel_time and
\* (edge, arrival) is enqueued in outflow_changes; without a queue the queue
\* function gets slope 0 and the edge has no pending depletion; with a queue
\* it gets slope -capacity and a depletion is pending at
\* built_until + cur_queue/capacity without a change event.
C29_CaseI ==
    \A e \in UpdatedEdges :
        (AccIn(e) = ZERO /\ EdgeUpdate(e).fault = NoFault) =>
            CaseIEffects(EdgeUpdate(e), e)

\* The inflow of an edge with a queue has dropped to 0.
C29_Witness ==
    \E e \in UpdatedEdges :
        /\ AccIn(e) = ZERO
        /\ EdgeUpdate(e).fault = NoFault
        /\ NumLt(ZERO, CurQueue(e))
        /\ NumLt(ZERO, travel_time[e])

\* The inflow of an edge without a queue has dropped to 0.
C29_WithoutQueue ==
    \E e \in UpdatedEdges :
        /\ AccIn(e) = ZERO
        /\ EdgeUpdate(e).fault = NoFault
        /\ CurQueue(e) = ZERO
        /\ before.inflow[e].queue # <<>>

\* The path-inflow changes that the step pops: items <<path, value>> of the
\* priority queue before the step that are gone after it.
PoppedChanges == (DOMAIN path_inflow_rate_changes) \ (DOMAIN path_inflow_rate_changes')

\* The popped change d = <<path, value>> is part of the inflow that the step
\* hands to extend: the entry of the path's first edge under the path's id is
\* what was left there by the propagation plus the popped values of the path.
AddedToFirstEdge(d) ==
    /\ <<d[1], {}>> \in DOMAIN next_edge
    /\ calls' # calls
    /\ next_edge[<<d[1], {}>>] \in DOMAIN Last(calls').new_inflow
    /\ d[1] \in DOMAIN Last(calls').new_inflow[next_edge[<<d[1], {}>>]]
    /\ Last(calls').new_inflow[next_edge[<<d[1], {}>>]][d[1]] =
           NumAdd(IF /\ next_edge[<<d[1], {}>>] \in DOMAIN new_inflow
                     /\ d[1] \in DOMAIN new_inflow[next_edge[<<d[1], {}>>]]
                  THEN new_inflow[next_edge[<<d[1], {}>>]][d[1]] ELSE ZERO,
                  SumOver([c \in PoppedChanges |-> c[2]],
                          {c \in PoppedChanges : c[1] = d[1]}))

\* C30: path-inflow timing in build_flow: whenever build_flow pops a
\* path-inflow change with a time >= 0, built_until is that change's time (the
\* watermark has not jumped past it, every extend being capped by the earliest
\* pending change); the changes are popped in non-decreasing order of time
\* (what stays pending is later than what is popped), and each is added to
\* the inflow of the path's first edge under the path's id.
C30_PathInflowTiming ==
    [][\A d \in PoppedChanges :
           /\ NumLe(ZERO, path_inflow_rate_changes[d])
                  => built_until = path_inflow_rate_changes[d]
           /\ \A c \in DOMAIN path_inflow_rate_changes' :
                  /\ path_inflow_rate_changes'[c] = path_inflow_rate_changes[c]
                  /\ NumLt(path_inflow_rate_changes[d], path_inflow_rate_changes[c])
           /\ AddedToFirstEdge(d)
           /\ Last(calls').max_extension_time = MinTime(path_inflow_rate_changes')
           /\ fault' = NoFault => NumLe(built_until', IF path_inflow_rate_changes' = <<>>
                                                      THEN INFINITY
                                                      ELSE The(MinTime(path_inflow_rate_changes')))
      ]_vars

\* A change of a path's inflow has been popped at its time BreakTime, after
\* an earlier call had been stopped there, and was handed to extend under the
\* path's id on the path's first edge.
C30_Witness ==
    /\ Len(calls) >= 2
    /\ before.built_until = Int2Num(BreakTime)
    /\ calls[Len(calls) - 1].max_extension_time = {Int2Num(BreakTime)}
    /\ path_inflow_rate_changes = <<>>
    /\ \E i \in 1..Len(path_inflows_given) :
          /\ path_inflows_given[i].path[1] \in DOMAIN Last(calls).new_inflow
          /\ (i - 1) \in DOMAIN Last(calls).new_inflow[path_inflows_given[i].path[1]]

(***************************************************************************)
(* Propagation along paths (network_loader.rs:91-112).                     *)
(***************************************************************************)
\* The edges of path i in order, as given to NetworkLoader::new.
PathOf(i) == path_inflows_given[i + 1].path

PathIds == {i - 1 : i \in 1..Len(path_inflows_given)}

\* The outflow snapshot of edge e at built_until: an Option.
OutflowSnapshot(e) == get_values_at_time(outflow[e], built_until).values

\* The changed edges of the last call whose outflow snapshot at built_until
\* lists path i, that do not end path i and have n next after them on path i.
Feeders(i, n) ==
    {e \in Last(calls).changed_edges :
        /\ OutflowSnapshot(e) # {}
        /\ i \in DOMAIN The(OutflowSnapshot(e))
        /\ Last(PathOf(i)) # e
        /\ \E k \in 1..(Len(PathOf(i)) - 1) : PathOf(i)[k] = e /\ PathOf(i)[k + 1] = n}

\* Edge n is on path i, and every edge before it on the path has had inflow
\* and outflow for path i.
AfterPrecedingEdges(i, n) ==
    \E k \in 1..Len(PathOf(i)) :
        /\ PathOf(i)[k] = n
        /\ \A j \in 1..(k - 1) :
              /\ i \in DOMAIN inflow[PathOf(i)[j]].function_by_comm
              /\ i \in DOMAIN outflow[PathOf(i)[j]].function_by_comm

\* The inflow that build_flow has collected for the next extend is, per edge
\* and path, the sum of the rates of the feeding edges' outflow snapshots, and
\* nothing else.
PropagatedAlongPaths ==
    \A n \in Edges(num_edges), i \in PathIds :
        /\ (n \in DOMAIN new_inflow /\ i \in DOMAIN new_inflow[n]) <=> Feeders(i, n) # {}
        /\ Feeders(i, n) # {} =>
              /\ new_inflow[n][i] =
                     SumOver([e \in Feeders(i, n) |-> The(OutflowSnapshot(e))[i]],
                             Feeders(i, n))
              /\ AfterPrecedingEdges(i, n)

\* A call of extend in build_flow has returned and its changed edges have been
\* read.
Propagated == calls # <<>> /\ fault = NoFault /\ pc \in {"loop", "returned"}

\* C31: propagation along paths in build_flow: for every edge e reported as
\* changed and every (path, rate) of e's outflow snapshot at built_until, the
\* rate is added to the next extend's inflow of exactly the successor of e on
\* the path; a path that ends at e contributes to no edge; an edge receives
\* inflow only for a path that contains it and only after the path's flow has
\* passed the edges before it on the path.
C31_Propagation == Propagated => PropagatedAlongPaths

\* An edge has received, for the next call, the outflow of its predecessor on
\* a path.
C31_Fed ==
    /\ Propagated
    /\ \E n \in DOMAIN new_inflow : \E i \in DOMAIN new_inflow[n] :
          /\ Len(PathOf(i)) >= 2
          /\ NumLt(ZERO, new_inflow[n][i])

\* build_flow for one path that comes back to its first edge: the slice
\* [0, 1, 0] is a path that NetworkLoader::new accepts.
RevisitPathInflows == {<< [path |-> <<0, 1, 0>>, inflow |-> f] >> : f \in Inflows}

InitRevisit ==
    \E dbg \in BOOLEAN :
        /\ path_inflows_given \in RevisitPathInflows
        /\ num_edges = NumEdgesOf(PathsOf(path_inflows_given))
        /\ capacity \in Profiles(num_edges, 1..MaxCapacity)
        /\ inv_capacity = [e \in Edges(num_edges) |-> NumDiv(ONE, capacity[e])]
        /\ travel_time \in Profiles(num_edges, 0..MaxTravelTime)
        /\ next_edge = NetworkLoaderNew(path_inflows_given).next_edge
        /\ path_inflow_rate_changes = NetworkLoaderNew(path_inflows_given).path_inflow_rate_changes
        /\ InitFlow(num_edges)
        /\ new_inflow = [e \in {} |-> EmptyMap]
        /\ pc = "loop"
        /\ fault = NoFault
        /\ debug_assertions = dbg
        /\ calls = <<>>
        /\ before = DynamicFlowNew(num_edges)

SpecRevisit == InitRevisit /\ [][Next]_vars

\* On a path without a repeated edge the propagation is as C31 states (holds
\* on Spec); C31_Propagation is violated on SpecRevisit.
C31_OnSimplePaths ==
    (\A i \in PathIds : \A k, j \in 1..Len(PathOf(i)) : PathOf(i)[k] = PathOf(i)[j] => k = j)
        => C31_Propagation

(***************************************************************************)
(* The frame of extend (dynamic_flow.rs:166-249).                          *)
(***************************************************************************)
\* The edges that the last call was given no inflow for.
NotMentioned == Edges(num_edges) \ DOMAIN Last(calls).new_inflow

\* The last call has changed the queue function or an outflow function of e.
FunctionsChanged(e) ==
    \/ queues[e] # before.queues[e]
    \/ outflow[e].function_by_comm # before.outflow[e].function_by_comm
    \/ outflow[e].accumulative # before.outflow[e].accumulative

\* The queue and the outflow functions of e are those before the call after
\* the processing of the depletion that was pending for e: the queue extended
\* to (depletion time, 0) with slope 0, the outflow extended by the change
\* event if the depletion carried one.
OnlyDepleted(e) ==
    /\ \E qf \in {PLExtend(before.queues[e], before.depletions.depletions[e], ZERO)} :
          queues[e] = [qf.f EXCEPT !.points = SetLast(@, <<Last(qf.f.points)[1], ZERO>>)]
    /\ \E o \in {IF e \in DOMAIN before.depletions.change_times_after_a_depletion
                 THEN FRCExtend(before.outflow[e],
                                before.depletions.change_times_after_a_depletion[e],
                                before.depletions.new_outflow[e].new_outflow_map,
                                before.depletions.new_outflow[e].values_sum,
                                debug_assertions).c
                 ELSE before.outflow[e]} :
          /\ outflow[e].function_by_comm = o.function_by_comm
          /\ outflow[e].accumulative = o.accumulative

\* C32: frame of extend: for every edge not mentioned in new_inflow, an extend
\* call leaves the edge's inflow collection unchanged and changes its queue
\* and outflow functions only by processing a depletion of that edge that was
\* already pending with a time <= the new built_until.
C32_Frame ==
    calls # <<>> =>
        \A e \in NotMentioned :
            /\ inflow[e] = before.inflow[e]
            /\ FunctionsChanged(e) =>
                  /\ e \in DOMAIN before.depletions.depletions
                  /\ NumLe(before.depletions.depletions[e], built_until)
                  /\ fault = NoFault => OnlyDepleted(e)

\* A call has processed the pending depletion of an edge that it was given no
\* inflow for, and has left another edge that it was given no inflow for
\* untouched.
C32_Witness ==
    /\ calls # <<>>
    /\ fault = NoFault
    /\ \E e \in NotMentioned :
          /\ queues[e] # before.queues[e]
          /\ NumLt(ZERO, PLEval(before.queues[e], before.built_until))
    /\ \E e \in NotMentioned : ~FunctionsChanged(e) /\ before.inflow[e].queue # <<>>

(***************************************************************************)
(* The flow that build_flow returns.                                       *)
(***************************************************************************)
\* Every path's inflow schedule ends with rate 0.
SchedulesEndWithZero ==
    \A i \in 1..Len(path_inflows_given) : Last(path_inflows_given[i].inflow)[2] = ZERO

\* On edge e the last total inflow rate and the last total outflow rate are 0
\* and the queue ends at 0 with slope 0.
Zeroed(e) ==
    /\ inflow[e].accumulative.last_slope = ZERO
    /\ outflow[e].accumulative.last_slope = ZERO
    /\ Last(queues[e].points)[2] = ZERO
    /\ queues[e].last_slope = ZERO

\* C33: downstream zeroing: if every path's inflow schedule ends with rate 0,
\* then when build_flow returns, on every edge the last total inflow rate and
\* the last total outflow rate are 0 and the queue is 0 with slope 0.
C33_DownstreamZeroing ==
    (pc = "returned" /\ SchedulesEndWithZero) => \A e \in Edges(num_edges) : Zeroed(e)

\* On the first edge of every path the claim holds: an inflow that stops is
\* recorded there, and the edge drains.
C33_FirstEdgesZeroed ==
    (pc = "returned" /\ SchedulesEndWithZero) =>
        \A i \in PathIds : Zeroed(PathOf(i)[1])

\* The inflow snapshot of edge e that was current before the last call: an Option.
PreviousSnapshot(e) == get_values_at_time(before.inflow[e], before.built_until).values

\* The paths of the previous snapshot of e whose rate the last call was given
\* no change for.
OtherPaths(e) ==
    IF PreviousSnapshot(e) = {} THEN {}
    ELSE (DOMAIN The(PreviousSnapshot(e))) \ (DOMAIN Last(calls).new_inflow[e])

\* C34: other commodities are retained: when build_flow feeds an inflow change
\* for one path into an edge, the inflow rates on that edge of the other
\* paths, whose rate did not change at that time, stay what they were: the
\* edge's new inflow snapshot is the complete per-path map.
C34_OtherCommoditiesRetained ==
    (calls # <<>> /\ fault = NoFault) =>
        \A e \in UpdatedEdges : \A i \in OtherPaths(e) :
            /\ i \in DOMAIN Last(inflow[e].queue).values
            /\ Last(inflow[e].queue).values[i] = The(PreviousSnapshot(e))[i]

\* The new inflow snapshot of an updated edge is the map that build_flow
\* passed for the edge, and the total rate is the sum over that map.
C34_SnapshotIsPassedMap ==
    (calls # <<>> /\ fault = NoFault) =>
        \A e \in UpdatedEdges :
            /\ Last(inflow[e].queue).values = Last(calls).new_inflow[e]
            /\ inflow[e].accumulative.last_slope = SumMap(Last(calls).new_inflow[e])

(***************************************************************************)
(* The pending path-inflow changes (network_loader.rs:15-17, 40-42).       *)
(***************************************************************************)
\* NetworkLoader::new has returned and build_flow has not yet popped a change.
Constructed == calls = <<>> /\ pc = "loop" /\ fault = NoFault

\* C35: no schedule breakpoint is lost: for every path and every breakpoint
\* (time, rate) of its inflow schedule, NetworkLoader::new keeps one pending
\* change (path, rate) at that time, also when the same rate value occurs at
\* two breakpoints of the schedule.
C35_NoBreakpointLost ==
    Constructed =>
        \A i \in 1..Len(path_inflows_given) :
            \A k \in 1..Len(path_inflows_given[i].inflow) :
                /\ <<i - 1, path_inflows_given[i].inflow[k][2]>>
                       \in DOMAIN path_inflow_rate_changes
                /\ path_inflow_rate_changes[<<i - 1, path_inflows_given[i].inflow[k][2]>>]
                       = path_inflows_given[i].inflow[k][1]

\* What holds instead: one pending change per path and rate value, at the
\* time of the last breakpoint of the schedule with that value.
C35_LastBreakpointPerValue ==
    Constructed =>
        /\ DOMAIN path_inflow_rate_changes =
               UNION {{<<i - 1, path_inflows_given[i].inflow[k][2]>> :
                          k \in 1..Len(path_inflows_given[i].inflow)} :
                      i \in 1..Len(path_inflows_given)}
        /\ \A i \in 1..Len(path_inflows_given) :
               \A k \in 1..Len(path_inflows_given[i].inflow) :
                   (\A j \in (k + 1)..Len(path_inflows_given[i].inflow) :
                        path_inflows_given[i].inflow[j][2]
                            # path_inflows_given[i].inflow[k][2])
                       => path_inflow_rate_changes[
                              <<i - 1, path_inflows_given[i].inflow[k][2]>>]
                              = path_inflows_given[i].inflow[k][1]

\* The schedule with the rates 1, 0, 1, 0 at the times 0, 1, 2, 3 leaves two
\* pending changes: rate 1 at time 2 and rate 0 at time 3.
C35_AlternatingSchedule ==
    NetworkLoaderNew(<< [path |-> <<0>>,
                         inflow |-> << <<ZERO, ONE>>, <<ONE, ZERO>>,
                                       <<Int2Num(2), ONE>>, <<Int2Num(3), ZERO>> >>] >>)
        .path_inflow_rate_changes
      = (<<0, ONE>> :> Int2Num(2)) @@ (<<0, ZERO>> :> Int2Num(3))

(***************************************************************************)
(* Pending depletions and draining queues.                                 *)
(***************************************************************************)
\* The queue of e is draining: its current slope is negative.
Draining(e) == NumLt(queues[e].last_slope, ZERO)

\* The pending depletion of e is that of its draining queue: the queue is
\* positive at built_until, drains no faster than the capacity, and reaches 0
\* at the pending depletion time, which is not before built_until.
DepletionMatchesQueue(e) ==
    /\ NumLt(ZERO, PLEval(queues[e], built_until))
    /\ NumLe(NumNeg(capacity[e]), queues[e].last_slope)
    /\ NumLe(built_until, depletions.depletions[e])
    /\ LeTol(NumAbs(PLEval(queues[e], depletions.depletions[e])), Mille)

\* C36: pending depletion matches a draining queue: after every extend call
\* with a finite built_until, an edge has a pending entry in the depletion
\* heap if and only if the current slope of its queue function is negative;
\* then the queue is positive at built_until, the slope is not below
\* -capacity, and the pending depletion time is >= built_until and is the time
\* at which the queue function reaches 0.
C36_PendingDepletionDrains ==
    EndedFinite =>
        \A e \in Edges(num_edges) :
            /\ e \in DOMAIN depletions.depletions <=> Draining(e)
            /\ Draining(e) => DepletionMatchesQueue(e)

\* A call has returned while a queue is draining towards a pending depletion,
\* and an earlier pending depletion of another call has been processed.
C36_Witness ==
    /\ EndedFinite
    /\ \E e \in Edges(num_edges) :
          /\ Draining(e)
          /\ NumLt(built_until, depletions.depletions[e])
          /\ e \notin DOMAIN depletions.change_times_after_a_depletion

\* A call has returned after the depletion: the queue is flat at 0 and the
\* edge has no pending entry.
C36_Drained ==
    /\ EndedFinite
    /\ \E e \in DueDepletions(before, built_until) :
          /\ ~Draining(e)
          /\ e \notin DOMAIN depletions.depletions
          /\ PLEval(queues[e], built_until) = ZERO

\* No returned call leaves a depletion pending that carries a change event.
C36_NoPendingEventAfterReturn ==
    EndedFinite => DOMAIN depletions.change_times_after_a_depletion = {}

(***************************************************************************)
(* Fatal preconditions in build_flow.                                      *)
(***************************************************************************)
\* The input of build_flow is well-formed: every path has an edge, the edge
\* ids are below num_edges, capacities are positive and travel times are not
\* negative.
WellFormedInput ==
    /\ \A i \in 1..Len(path_inflows_given) :
          /\ path_inflows_given[i].path # <<>>
          /\ \A k \in 1..Len(path_inflows_given[i].path) :
                 path_inflows_given[i].path[k] \in Edges(num_edges)
    /\ \A e \in Edges(num_edges) :
          /\ NumLt(ZERO, capacity[e])
          /\ NumLe(ZERO, travel_time[e])

\* C37: build_flow never aborts on well-formed input: no step of build_flow
\* reaches a fatal precondition (a get_values_at_time that finds no snapshot
\* at or before built_until, an extension of a piecewise function before its
\* last breakpoint).
C37_NeverAborts == WellFormedInput => (fault = NoFault /\ pc # "aborted")

\* The get_values_at_time calls of the last iteration have found their
\* snapshot: the inflow at built_until for every edge of new_inflow, and
\* outflow_at_built_until for every changed edge of a call that returned.
C37_SnapshotsFound ==
    calls # <<>> =>
        /\ \A e \in DOMAIN Last(calls).new_inflow :
               get_values_at_time(before.inflow[e], before.built_until).fault = NoFault
        /\ \A order \in Orders(DOMAIN Last(calls).new_inflow),
              tie \in Orders(TieEdges(before, Last(calls).new_inflow)) :
               \A r \in {Extend(before, Last(calls).new_inflow, order, tie,
                                Last(calls).max_extension_time, Params)} :
                   r.s.fault = NoFault =>
                       Propagate(r.s, r.changed_edges, next_edge).fault = NoFault

\* Every call that aborts has made a Case III update: it has scheduled a
\* depletion before built_until and fails when it extends the queue function
\* back to that time.
C37_AbortsAfterCaseIII ==
    fault # NoFault => UpdatedBy("III") # {}

(***************************************************************************)
(* Order independence (dynamic_flow.rs:178, network_loader.rs:92).         *)
(***************************************************************************)
\* The result of the last extend call had the edges of new_inflow been
\* iterated in `order` and equal depletion times been popped in the order `tie`.
Rerun(order, tie) ==
    Extend(before, Last(calls).new_inflow, order, tie,
           Last(calls).max_extension_time, Params)

\* r, the result of the last call under another order, is the result that the
\* call had: it aborts if and only if the call aborted; if it returns, the set
\* of changed edges and, after build_flow has read the outflow of the changed
\* edges, the whole flow are the same.
SameResult(r) ==
    /\ r.s.fault # NoFault => fault # NoFault
    /\ fault = NoFault =>
          /\ r.s.fault = NoFault
          /\ r.changed_edges = Last(calls).changed_edges
          /\ r.s.built_until = built_until
          /\ r.s.inflow = inflow
          /\ r.s.queues = queues
          /\ r.s.depletions = depletions
          /\ r.s.outflow_changes = outflow_changes
          /\ \A p \in {Propagate(r.s, r.changed_edges, next_edge)} :
                /\ p.s.outflow = outflow
                /\ p.new_inflow = new_inflow

====
